---- MODULE Spec2Model ----
(***************************************************************************)
(* Risk decision and automated-response pipeline of siem-enterprise:      *)
(* reputation upsert (risk-engine trigger update_ip_rep and the admin      *)
(* console's IP management), risk scoring and decision policy              *)
(* (risk-engine calculate_risk / decide_action), the SOAR action executor  *)
(* with the WAF as enforcement point, the WAF's detection engine and       *)
(* request middleware, the expiry of the keys of the WAF's key store, and  *)
(* the risk engine's startup and assess endpoint.                          *)
(*                                                                         *)
(* Scores, ratios, weights and thresholds are fixed-point numbers in       *)
(* thousandths: the float 0.9 is the integer 900.  All inputs drawn for    *)
(* the scorer are multiples of 0.05, for which every product below is      *)
(* exact.                                                                  *)
(***************************************************************************)
EXTENDS Integers, Sequences, FiniteSets, Bags, TLC

\* ------------------------------------------------------------------------
\* Bounds of the model
\* ------------------------------------------------------------------------
MaxDetections == 2

MaxRequests == 2

MaxCalls == 2

MaxRollbacks == 2

MaxIncidents == 2

MaxAssessments == 2

\* ------------------------------------------------------------------------
\* Program constants (risk-engine/main.py)
\* ------------------------------------------------------------------------
RISK_THRESHOLD_BLOCK == 900
RISK_THRESHOLD_CAPTCHA == 700

WEIGHTS == [ml |-> 400, owasp |-> 300, behavioral |-> 200, contextual |-> 100]

AutomationLevels == {"manual", "semi-auto", "auto", "strict", "other"}

VARIABLES
    ml_data,            \* assess_risk: latest ml_predictions row of the request, or the empty dict
    owasp_data,         \* assess_risk: the request's owasp_detections rows
    behavioral,         \* assess_risk: blocked_ratio of the source's ip_reputation row, or the empty dict
    risk_score,         \* value returned by calculate_risk
    decision,           \* dict returned by decide_action
    AUTOMATION_LEVEL,   \* environment variable AUTOMATION_LEVEL read by decide_action
    op,                 \* last operation that ran
    ip_reputation,      \* table ip_reputation: sequence of rows in insertion order
    raw_requests,       \* table raw_requests: bag of the committed rows (client_ip, is_blocked, is_suspicious)
    in_flight,          \* bag of the requests handed to /api/ingest and not yet stored
    waf_blocked_ip,     \* the WAF's keys blocked_ip:<ip>: identity -> deny entry
    risk_assessments,   \* table risk_assessments, the id of a row is its index
    soar_actions,       \* table soar_actions, the id of a row is its index
    incidents,          \* table incidents, the id of a row is its index
    soar_redis,         \* the SOAR's keys <kind>:<ip> in its own key store
    ENABLE_AUTO_BLOCK,  \* SOAR configuration
    ENABLE_CAPTCHA,     \* SOAR configuration
    redis_client,       \* SOAR: FALSE when no client was created at startup (None)
    last_call,          \* the last SOAR request handled: its inputs, the WAF's answer, the response
    ncalls,             \* number of SOAR requests handled
    utcnow,             \* SOAR: the last time stamp datetime.utcnow() gave to a rollback
    WAF_MODE,           \* WAF: global WAF_MODE (audit, block or strict)
    RATE_LIMIT_PER_MINUTE, \* WAF: environment variable MAX_REQUESTS_PER_MINUTE
    waf_redis_client,   \* WAF: FALSE when no key store client was created at startup (None)
    waf_ratelimit,      \* the WAF's keys ratelimit:<ip>: identity -> counter of the current minute
    waf_window,         \* identity -> time to live of its key ratelimit:<ip> in minutes, 0 without key
    waf_handled,        \* identity -> number of non-health requests the middleware handled
    waf_response,       \* the last request through the middleware and the status code of its response
    waf_detect,         \* the last evaluation of detect_owasp: its inputs, the mode, its result
    threshold_block,    \* risk engine: environment variable RISK_THRESHOLD_BLOCK as read at import
    threshold_captcha,  \* risk engine: environment variable RISK_THRESHOLD_CAPTCHA as read at import
    engine_started,     \* risk engine: TRUE once lifespan has yielded
    assess_last,        \* the last response of POST /api/assess
    nassess             \* number of POST /api/assess requests handled

engineVars == <<threshold_block, threshold_captcha, engine_started, assess_last, nassess>>

riskVars == <<ml_data, owasp_data, behavioral, risk_score, decision, AUTOMATION_LEVEL, op,
              engineVars>>

repVars == <<ip_reputation, raw_requests, in_flight>>

pipelineVars == <<WAF_MODE, RATE_LIMIT_PER_MINUTE, waf_redis_client, waf_ratelimit,
                  waf_window, waf_handled, waf_response, waf_detect>>

wafVars == <<waf_blocked_ip, pipelineVars>>

soarVars == <<risk_assessments, soar_actions, incidents, soar_redis,
              ENABLE_AUTO_BLOCK, ENABLE_CAPTCHA, redis_client, last_call, ncalls,
              utcnow>>

vars == <<riskVars, repVars, wafVars, soarVars>>

IPs == {"10.0.0.1", "10.0.0.2"}

\* ------------------------------------------------------------------------
\* Fixed-point helpers
\* ------------------------------------------------------------------------
Min(a, b) == IF a <= b THEN a ELSE b

Max(a, b) == IF a >= b THEN a ELSE b

\* x * y of two numbers in thousandths
Mul(x, y) == (x * y) \div 1000

\* ------------------------------------------------------------------------
\* Risk Scorer: calculate_risk
\* ------------------------------------------------------------------------
EmptyDict == [present |-> FALSE, anomaly_score |-> 0, attack_probability |-> 0]

NoBehavioral == [present |-> FALSE, blocked_ratio |-> 0]

\* a severity map that scores HIGH like CRITICAL
severity_map_high(sev) ==
    CASE sev \in {"CRITICAL", "HIGH"} -> 1000
      [] sev = "MEDIUM" -> 500
      [] OTHER -> 300

\* severity_map.get(d.get("severity", "LOW"), 0.3)
severity_map(sev) ==
    CASE sev = "CRITICAL" -> 1000
      [] sev = "HIGH" -> 800
      [] sev = "MEDIUM" -> 500
      [] sev = "LOW" -> 300
      [] OTHER -> 300

RECURSIVE MaxDefault(_, _)
\* max([...], default=d) over a sequence of numbers
MaxDefault(s, d) ==
    IF s = <<>> THEN d
    ELSE IF Len(s) = 1 THEN Head(s)
    ELSE Max(Head(s), MaxDefault(Tail(s), d))

ml_score_default(ml) ==
    IF ml.present
        THEN Mul(ml.anomaly_score, 600) + Mul(ml.attack_probability, 400)
        ELSE 500

ml_score(ml) ==
    IF ml.present
        THEN Mul(ml.anomaly_score, 600) + Mul(ml.attack_probability, 400)
        ELSE 0

owasp_score_last(owasp) ==
    IF owasp = <<>> THEN 0 ELSE severity_map(owasp[Len(owasp)].severity)

owasp_score(owasp) ==
    MaxDefault([i \in 1..Len(owasp) |-> severity_map(owasp[i].severity)], 0)

behavioral_score_unscaled(beh) ==
    Min(IF beh.present THEN beh.blocked_ratio ELSE 0, 1000)

behavioral_score(beh) ==
    Min(Mul(IF beh.present THEN beh.blocked_ratio ELSE 0, 2000), 1000)

calculate_risk_contextual(ml, owasp, beh) ==
    Min(Mul(ml_score(ml), WEIGHTS.ml)
          + Mul(owasp_score(owasp), WEIGHTS.owasp)
          + Mul(behavioral_score(beh), WEIGHTS.behavioral)
          + WEIGHTS.contextual,
        1000)

calculate_risk(ml, owasp, beh) ==
    Min(Mul(ml_score(ml), WEIGHTS.ml)
          + Mul(owasp_score(owasp), WEIGHTS.owasp)
          + Mul(behavioral_score(beh), WEIGHTS.behavioral),
        1000)

\* ------------------------------------------------------------------------
\* Decision Policy: decide_action
\* ------------------------------------------------------------------------
requires_validation_strict(score, level) ==
    CASE level = "manual" -> TRUE
      [] level = "semi-auto" -> score > 800
      [] level = "auto" -> score > 950
      [] level = "strict" -> FALSE
      [] OTHER -> TRUE

requires_validation(score, level) ==
    CASE level = "manual" -> TRUE
      [] level = "semi-auto" -> score >= 800
      [] level = "auto" -> score >= 950
      [] level = "strict" -> FALSE
      [] OTHER -> TRUE

action_level_strict(score) ==
    IF score > threshold_block THEN [action |-> "BLOCK_IP", level |-> "CRITICAL"]
    ELSE IF score > threshold_captcha THEN [action |-> "CAPTCHA", level |-> "HIGH"]
    ELSE IF score > 500 THEN [action |-> "RATE_LIMIT", level |-> "MEDIUM"]
    ELSE [action |-> "ALERT_ONLY", level |-> "LOW"]

action_level(score) ==
    IF score >= threshold_block THEN [action |-> "BLOCK_IP", level |-> "CRITICAL"]
    ELSE IF score >= threshold_captcha THEN [action |-> "CAPTCHA", level |-> "HIGH"]
    ELSE IF score >= 500 THEN [action |-> "RATE_LIMIT", level |-> "MEDIUM"]
    ELSE [action |-> "ALERT_ONLY", level |-> "LOW"]

decide_action(score, level) ==
    [action |-> action_level(score).action,
     level |-> action_level(score).level,
     requires_validation |-> requires_validation(score, level)]

NoDecision == [action |-> "NONE", level |-> "NONE", requires_validation |-> FALSE]

\* POST /api/assess has not been called yet
NoAssess ==
    [request_id |-> 0, store |-> "none", status |-> 0, action |-> "NONE", risk_score |-> 0]

\* the risk engine started under its default thresholds
InitEngine ==
    /\ threshold_block = RISK_THRESHOLD_BLOCK
    /\ threshold_captcha = RISK_THRESHOLD_CAPTCHA
    /\ engine_started = TRUE
    /\ assess_last = NoAssess
    /\ nassess = 0

\* no request has been assessed yet
RiskIdle ==
    /\ ml_data = EmptyDict
    /\ owasp_data = <<>>
    /\ behavioral = NoBehavioral
    /\ risk_score = 0
    /\ decision = NoDecision
    /\ op = "start"

\* ------------------------------------------------------------------------
\* Inputs of the scorer
\* ------------------------------------------------------------------------
AnomalyInputs == {-500, 0, 500, 900, 1000, 1500}

ProbabilityInputs == {0, 500, 800, 1000, 1500}

RatioInputs == {0, 250, 500, 600}

DetectionInputs ==
    { [owasp_category |-> "SQL_INJECTION", severity |-> "CRITICAL"],
      [owasp_category |-> "XSS", severity |-> "HIGH"],
      [owasp_category |-> "SCANNER", severity |-> "MEDIUM"],
      [owasp_category |-> "POLICY", severity |-> "LOW"] }

VerdictInputs ==
    { [present |-> TRUE, anomaly_score |-> a, attack_probability |-> p] :
        a \in AnomalyInputs, p \in ProbabilityInputs }

BehavioralInputs == { [present |-> TRUE, blocked_ratio |-> r] : r \in RatioInputs }

\* ------------------------------------------------------------------------
\* Reputation Tracker: table ip_reputation, trigger update_ip_rep and the
\* admin console's block / unblock / whitelist.  Timestamps and the
\* blacklist reason text are not modelled.
\* ------------------------------------------------------------------------
\* column defaults of CREATE TABLE ip_reputation
DefaultRow(ip) ==
    [ip_address |-> ip, total_requests |-> 0, blocked_requests |-> 0,
     suspicious_requests |-> 0, reputation_score |-> 500, trust_level |-> "NEUTRAL",
     is_whitelisted |-> FALSE, is_blacklisted |-> FALSE]

\* a raw_requests row as the trigger sees it
Requests == [client_ip : IPs, is_blocked : BOOLEAN, is_suspicious : BOOLEAN]

\* CASE WHEN NEW.is_blocked THEN 1 ELSE 0 END
Bit(b) == IF b THEN 1 ELSE 0

\* the rows of the table whose primary key is ip
RowsOf(table, ip) == { i \in 1..Len(table) : table[i].ip_address = ip }

\* blocked::float / NULLIF(total, 0) > num/den ; NULL (total = 0) is not true
RatioAbove(blocked, total, num, den) ==
    total # 0 /\ blocked * den > num * total

\* the CASE of the DO UPDATE branch
case_reputation_score(blocked, total) ==
    IF RatioAbove(blocked, total, 5, 10) THEN 100
    ELSE IF RatioAbove(blocked, total, 2, 10) THEN 300
    ELSE 700

\* INSERT ... VALUES (NEW.client_ip, NEW.timestamp, 1, blocked, suspicious)
inserted_row(new) ==
    [DefaultRow(new.client_ip) EXCEPT
        !.total_requests = 1,
        !.blocked_requests = Bit(new.is_blocked),
        !.suspicious_requests = Bit(new.is_suspicious)]

\* a DO UPDATE that writes the proposed row's counter: total_requests = EXCLUDED.total_requests
do_update_excluded_total(row, new) ==
    [row EXCEPT
        !.total_requests = 1,
        !.blocked_requests = row.blocked_requests + Bit(new.is_blocked),
        !.suspicious_requests = row.suspicious_requests + Bit(new.is_suspicious),
        !.reputation_score =
            case_reputation_score(row.blocked_requests + Bit(new.is_blocked), 1)]

\* ON CONFLICT (ip_address) DO UPDATE SET ...
do_update(row, new) ==
    [row EXCEPT
        !.total_requests = row.total_requests + 1,
        !.blocked_requests = row.blocked_requests + Bit(new.is_blocked),
        !.suspicious_requests = row.suspicious_requests + Bit(new.is_suspicious),
        !.reputation_score =
            case_reputation_score(row.blocked_requests + Bit(new.is_blocked),
                                  row.total_requests + 1)]

\* a plain INSERT, without the conflict clause and without the primary key
update_ip_rep_insert_only(table, new) ==
    Append(table, inserted_row(new))

\* trigger function update_ip_rep(): one atomic INSERT ... ON CONFLICT DO UPDATE
update_ip_rep(table, new) ==
    IF RowsOf(table, new.client_ip) = {}
        THEN Append(table, inserted_row(new))
        ELSE [i \in 1..Len(table) |->
                IF table[i].ip_address = new.client_ip
                    THEN do_update(table[i], new)
                    ELSE table[i]]

\* no key; ttl is the time to live of a key in minutes
NoEntry == [present |-> FALSE, reason |-> "", duration_minutes |-> 0, ttl |-> 0]

\* redis SETEX blocked_ip:<ip> duration*60 reason
DenyEntry(reason, duration) ==
    [present |-> TRUE, reason |-> reason, duration_minutes |-> duration, ttl |-> duration]

InitRep ==
    /\ ip_reputation = <<>>
    /\ raw_requests = EmptyBag
    /\ in_flight = EmptyBag

\* no request has passed the middleware yet
NoResponse ==
    [client_ip |-> "", path |-> "", content |-> {}, ua |-> {}, status |-> 0, error |-> ""]

\* detect_owasp has not been evaluated yet
NoEvaluation ==
    [evaluated |-> FALSE, content |-> {}, ua |-> {}, mode |-> "", detections |-> <<>>]

\* the WAF's key store is empty and no request has been handled
InitWafStore ==
    /\ waf_blocked_ip = [ip \in IPs |-> NoEntry]
    /\ waf_ratelimit = [ip \in IPs |-> 0]
    /\ waf_window = [ip \in IPs |-> 0]
    /\ waf_handled = [ip \in IPs |-> 0]
    /\ waf_response = NoResponse
    /\ waf_detect = NoEvaluation

\* the WAF under its default configuration
InitWaf ==
    /\ InitWafStore
    /\ WAF_MODE = "audit"
    /\ RATE_LIMIT_PER_MINUTE = 100
    /\ waf_redis_client = TRUE

\* the WAF (or any client) posts a request record to /api/ingest
ingest_request ==
    /\ BagCardinality(raw_requests) + BagCardinality(in_flight) < MaxRequests
    /\ \E new \in Requests : in_flight' = in_flight (+) SetToBag({new})
    /\ UNCHANGED <<ip_reputation, raw_requests, riskVars, wafVars, soarVars>>

\* store_in_postgres: INSERT INTO raw_requests, whose AFTER INSERT trigger
\* runs update_ip_rep in the same transaction
store_in_postgres ==
    \E new \in BagToSet(in_flight) :
        /\ in_flight' = in_flight (-) SetToBag({new})
        /\ raw_requests' = raw_requests (+) SetToBag({new})
        /\ ip_reputation' = update_ip_rep(ip_reputation, new)
        /\ UNCHANGED <<riskVars, wafVars, soarVars>>

\* DO UPDATE SET is_blacklisted=true, blacklist_reason=$2, trust_level='MALICIOUS'
BlockSet(row) == [row EXCEPT !.is_blacklisted = TRUE, !.trust_level = "MALICIOUS"]

\* INSERT INTO ip_reputation (ip_address, is_blacklisted, blacklist_reason, trust_level)
\* ... ON CONFLICT (ip_address) DO UPDATE
block_upsert(table, ip) ==
    IF RowsOf(table, ip) = {}
        THEN Append(table, BlockSet(DefaultRow(ip)))
        ELSE [i \in 1..Len(table) |->
                IF table[i].ip_address = ip THEN BlockSet(table[i]) ELSE table[i]]

\* admin console POST /api/ips/block: best-effort call of the WAF, then upsert
block_ip ==
    \E ip \in IPs, applied \in BOOLEAN :
        /\ waf_blocked_ip' =
              IF applied
                  THEN [waf_blocked_ip EXCEPT ![ip] = DenyEntry("Manual block", 60)]
                  ELSE waf_blocked_ip
        /\ ip_reputation' = block_upsert(ip_reputation, ip)
        /\ UNCHANGED <<raw_requests, in_flight, riskVars, pipelineVars, soarVars>>

UnblockSet(row) == [row EXCEPT !.is_blacklisted = FALSE]

\* admin console POST /api/ips/unblock: best-effort call of the WAF, then UPDATE
unblock_ip ==
    \E ip \in IPs, applied \in BOOLEAN :
        /\ waf_blocked_ip' =
              IF applied THEN [waf_blocked_ip EXCEPT ![ip] = NoEntry] ELSE waf_blocked_ip
        /\ ip_reputation' =
              [i \in 1..Len(ip_reputation) |->
                 IF ip_reputation[i].ip_address = ip
                     THEN UnblockSet(ip_reputation[i])
                     ELSE ip_reputation[i]]
        /\ UNCHANGED <<raw_requests, in_flight, riskVars, pipelineVars, soarVars>>

\* DO UPDATE SET is_whitelisted=true, trust_level='TRUSTED', reputation_score=1.0
WhitelistSet(row) ==
    [row EXCEPT !.is_whitelisted = TRUE, !.trust_level = "TRUSTED",
                !.reputation_score = 1000]

\* an upsert that replaces the row of the identity (INSERT OR REPLACE)
whitelist_upsert_replace(table, ip) ==
    IF RowsOf(table, ip) = {}
        THEN Append(table, WhitelistSet(DefaultRow(ip)))
        ELSE [i \in 1..Len(table) |->
                IF table[i].ip_address = ip THEN WhitelistSet(DefaultRow(ip)) ELSE table[i]]

\* INSERT INTO ip_reputation (ip_address, is_whitelisted, trust_level, reputation_score)
\* ... ON CONFLICT (ip_address) DO UPDATE
whitelist_upsert(table, ip) ==
    IF RowsOf(table, ip) = {}
        THEN Append(table, WhitelistSet(DefaultRow(ip)))
        ELSE [i \in 1..Len(table) |->
                IF table[i].ip_address = ip THEN WhitelistSet(table[i]) ELSE table[i]]

\* admin console POST /api/ips/whitelist
whitelist_ip ==
    \E ip \in IPs :
        /\ ip_reputation' = whitelist_upsert(ip_reputation, ip)
        /\ UNCHANGED <<raw_requests, in_flight, riskVars, wafVars, soarVars>>

\* ------------------------------------------------------------------------
\* SOAR: action executor (execute_action), /api/execute and
\* /api/manual-action, with the WAF's /admin/block-ip as enforcement point.
\* The SOAR's key store and the WAF's are configured independently (each
\* service's REDIS_URL) and are modelled as two stores.
\* ------------------------------------------------------------------------
BLOCK_DURATION == 60

ActionTypes == {"BLOCK_IP", "CAPTCHA", "RATE_LIMIT", "ALERT_ONLY"}

RedisKinds == {"blocked_ip", "require_captcha", "rate_limit_strict"}

\* What a POST to the WAF's /admin/block-ip can come to:
\*   ok_applied       200, the handler stored the deny entry
\*   ok_noop          200, the WAF has no key store (block_ip returns silently)
\*   rejected         non-200 and the handler did not run (the WAF middleware
\*                    answered 403 / 429, or the parameters were refused)
\*   unreachable      exception, the request never arrived
\*   timeout_applied  exception (no answer within 5 s), the handler had stored the entry
\*   timeout_noop     exception (no answer within 5 s), nothing stored
WafOutcomes ==
    {"ok_applied", "ok_noop", "rejected", "unreachable", "timeout_applied", "timeout_noop"}

\* resp.status_code == 200
Status200(waf) == waf \in {"ok_applied", "ok_noop"}

\* a block_ip that keeps an entry already present (SET ... NX)
admin_block_ip_keep(blocked, waf, ip, reason, duration) ==
    IF waf \in {"ok_applied", "timeout_applied"} /\ ~blocked[ip].present
        THEN [blocked EXCEPT ![ip] = DenyEntry(reason, duration)]
        ELSE blocked

\* WAF admin_block_ip -> block_ip: SETEX blocked_ip:<ip>
admin_block_ip(blocked, waf, ip, reason, duration) ==
    IF waf \in {"ok_applied", "timeout_applied"}
        THEN [blocked EXCEPT ![ip] = DenyEntry(reason, duration)]
        ELSE blocked

\* redis_client.setex(<kind>:<ip>, duration * 60, value)
setex(store, kind, ip, value, duration) ==
    [store EXCEPT ![<<kind, ip>>] = DenyEntry(value, duration)]

\* the BLOCK_IP branch without the test of the WAF's status code
execute_block_ip_unchecked(target_ip, duration, waf, redis_ok, st) ==
    [executed |-> TRUE, raised |-> FALSE, waf |-> waf,
     blocked |-> admin_block_ip(st.blocked, waf, target_ip,
                                "Auto-blocked by SOAR", duration),
     redis |-> IF st.redis_client /\ redis_ok
                  THEN setex(st.redis, "blocked_ip", target_ip, "SOAR_AUTO_BLOCK", duration)
                  ELSE st.redis]

\* execute_action, branch BLOCK_IP: POST /admin/block-ip to the WAF, then
\* SETEX blocked_ip:<ip> in the SOAR's own store
execute_block_ip(target_ip, duration, waf, redis_ok, st) ==
    LET blocked == admin_block_ip(st.blocked, waf, target_ip,
                                  "Auto-blocked by SOAR", duration)
    IN  IF Status200(waf)
            THEN IF st.redis_client
                    THEN IF redis_ok
                            THEN [executed |-> TRUE, raised |-> FALSE, waf |-> waf,
                                  blocked |-> blocked,
                                  redis |-> setex(st.redis, "blocked_ip", target_ip,
                                                  "SOAR_AUTO_BLOCK", duration)]
                            \* SETEX raised inside the try: "WAF unreachable"
                            ELSE [executed |-> FALSE, raised |-> FALSE, waf |-> waf,
                                  blocked |-> blocked, redis |-> st.redis]
                    ELSE [executed |-> TRUE, raised |-> FALSE, waf |-> waf,
                          blocked |-> blocked, redis |-> st.redis]
            \* "WAF returned <status>" or "WAF unreachable"
            ELSE [executed |-> FALSE, raised |-> FALSE, waf |-> waf,
                  blocked |-> blocked, redis |-> st.redis]

\* an executor whose ALERT_ONLY branch also sets the throttle marker
execute_action_alert_throttles(action_type, target_ip, duration, waf, redis_ok, st) ==
    IF action_type = "BLOCK_IP" /\ st.auto_block THEN
        execute_block_ip(target_ip, duration, waf, redis_ok, st)
    ELSE IF action_type = "CAPTCHA" /\ st.captcha THEN
        IF st.redis_client
            THEN IF redis_ok
                    THEN [executed |-> TRUE, raised |-> FALSE, waf |-> "none",
                          blocked |-> st.blocked,
                          redis |-> setex(st.redis, "require_captcha", target_ip, "1", duration)]
                    ELSE [executed |-> FALSE, raised |-> TRUE, waf |-> "none",
                          blocked |-> st.blocked, redis |-> st.redis]
            ELSE [executed |-> TRUE, raised |-> FALSE, waf |-> "none",
                  blocked |-> st.blocked, redis |-> st.redis]
    ELSE IF action_type = "RATE_LIMIT" THEN
        IF st.redis_client
            THEN IF redis_ok
                    THEN [executed |-> TRUE, raised |-> FALSE, waf |-> "none",
                          blocked |-> st.blocked,
                          redis |-> setex(st.redis, "rate_limit_strict", target_ip, "10", duration)]
                    ELSE [executed |-> FALSE, raised |-> TRUE, waf |-> "none",
                          blocked |-> st.blocked, redis |-> st.redis]
            ELSE [executed |-> TRUE, raised |-> FALSE, waf |-> "none",
                  blocked |-> st.blocked, redis |-> st.redis]
    ELSE IF action_type = "ALERT_ONLY" THEN
        [executed |-> TRUE, raised |-> FALSE, waf |-> "none",
         blocked |-> st.blocked,
         redis |-> setex(st.redis, "rate_limit_strict", target_ip, "10", duration)]
    \* "Unknown action"
    ELSE [executed |-> FALSE, raised |-> FALSE, waf |-> "none",
          blocked |-> st.blocked, redis |-> st.redis]

\* execute_action(action_type, target_ip, duration_minutes) -> {executed, message}
\* waf: what the call of the WAF comes to; redis_ok: whether a SETEX on the
\* SOAR's store succeeds; st: the state read (configuration and stores).
\* Returns the result, whether an exception escaped, and the stores afterwards.
execute_action(action_type, target_ip, duration, waf, redis_ok, st) ==
    IF action_type = "BLOCK_IP" /\ st.auto_block THEN
        execute_block_ip(target_ip, duration, waf, redis_ok, st)
    ELSE IF action_type = "CAPTCHA" /\ st.captcha THEN
        IF st.redis_client
            THEN IF redis_ok
                    THEN [executed |-> TRUE, raised |-> FALSE, waf |-> "none",
                          blocked |-> st.blocked,
                          redis |-> setex(st.redis, "require_captcha", target_ip, "1", duration)]
                    ELSE [executed |-> FALSE, raised |-> TRUE, waf |-> "none",
                          blocked |-> st.blocked, redis |-> st.redis]
            ELSE [executed |-> TRUE, raised |-> FALSE, waf |-> "none",
                  blocked |-> st.blocked, redis |-> st.redis]
    ELSE IF action_type = "RATE_LIMIT" THEN
        IF st.redis_client
            THEN IF redis_ok
                    THEN [executed |-> TRUE, raised |-> FALSE, waf |-> "none",
                          blocked |-> st.blocked,
                          redis |-> setex(st.redis, "rate_limit_strict", target_ip, "10", duration)]
                    ELSE [executed |-> FALSE, raised |-> TRUE, waf |-> "none",
                          blocked |-> st.blocked, redis |-> st.redis]
            ELSE [executed |-> TRUE, raised |-> FALSE, waf |-> "none",
                  blocked |-> st.blocked, redis |-> st.redis]
    ELSE IF action_type = "ALERT_ONLY" THEN
        [executed |-> TRUE, raised |-> FALSE, waf |-> "none",
         blocked |-> st.blocked, redis |-> st.redis]
    \* "Unknown action"
    ELSE [executed |-> FALSE, raised |-> FALSE, waf |-> "none",
          blocked |-> st.blocked, redis |-> st.redis]

\* the state execute_action reads
ExecutorState ==
    [auto_block |-> ENABLE_AUTO_BLOCK, captcha |-> ENABLE_CAPTCHA,
     redis_client |-> redis_client, blocked |-> waf_blocked_ip, redis |-> soar_redis]

\* what the call of the WAF made by execute_action can come to; "none" when
\* the action makes no call
waf_outcomes(action_type) ==
    IF action_type = "BLOCK_IP" /\ ENABLE_AUTO_BLOCK THEN WafOutcomes ELSE {"none"}

\* whether a SETEX of execute_action on the SOAR's key store succeeds; no
\* choice when the action writes no key or the SOAR has no client
redis_outcomes(action_type) ==
    IF /\ redis_client
       /\ \/ action_type = "BLOCK_IP" /\ ENABLE_AUTO_BLOCK
          \/ action_type = "CAPTCHA" /\ ENABLE_CAPTCHA
          \/ action_type = "RATE_LIMIT"
        THEN BOOLEAN ELSE {TRUE}

\* an executor that repeats a failed call of the WAF twice
waf_calls_retrying(action_type, waf, st) ==
    IF action_type = "BLOCK_IP" /\ st.auto_block
        THEN IF Status200(waf) THEN <<waf>> ELSE <<waf, waf, waf>>
        ELSE <<>>

\* the calls execute_action makes to the WAF, each with what it comes to:
\* one POST /admin/block-ip in the BLOCK_IP branch, not repeated when it
\* fails, and none in the other branches
waf_calls(action_type, waf, st) ==
    IF action_type = "BLOCK_IP" /\ st.auto_block THEN <<waf>> ELSE <<>>

incident_severity_strict(score) == IF score > 900 THEN "CRITICAL" ELSE "HIGH"

\* "CRITICAL" if risk_score >= 0.9 else "HIGH"
incident_severity(score) == IF score >= 900 THEN "CRITICAL" ELSE "HIGH"

\* "EXECUTED" if result["executed"] else "FAILED"
action_status(executed) == IF executed THEN "EXECUTED" ELSE "FAILED"

\* BLOCK_DURATION if risk_score >= 0.9 else (30 if risk_score >= 0.7 else 15)
duration_for(score) ==
    IF score >= 900 THEN BLOCK_DURATION ELSE IF score >= 700 THEN 30 ELSE 15

NoCall ==
    [op |-> "none", action_type |-> "", target_ip |-> "", waf |-> "none",
     waf_calls |-> 0, redis_ok |-> TRUE, status |-> 0, executed |-> FALSE,
     action_id |-> 0, incident_id |-> 0]

InitSoarTables ==
    /\ risk_assessments = <<>>
    /\ soar_actions = <<>>
    /\ incidents = <<>>
    /\ soar_redis = [k \in RedisKinds \X IPs |-> NoEntry]
    /\ last_call = NoCall
    /\ ncalls = 0
    /\ utcnow = 0

\* the requests assessed in the SOAR specification, in the order in which
\* they are assessed: a request with no signal at all, the scenario of spec
\* section 8, and a request with every component maximal
AssessedRequests ==
    << [client_ip |-> "10.0.0.1", ml |-> EmptyDict, owasp |-> <<>>, beh |-> NoBehavioral],
       [client_ip |-> "10.0.0.1",
        ml |-> [present |-> TRUE, anomaly_score |-> 900, attack_probability |-> 800],
        owasp |-> << [owasp_category |-> "SQL_INJECTION", severity |-> "CRITICAL"] >>,
        beh |-> [present |-> TRUE, blocked_ratio |-> 600]],
       [client_ip |-> "10.0.0.2",
        ml |-> [present |-> TRUE, anomaly_score |-> 1000, attack_probability |-> 1000],
        owasp |-> << [owasp_category |-> "SQL_INJECTION", severity |-> "CRITICAL"] >>,
        beh |-> [present |-> TRUE, blocked_ratio |-> 600]] >>

\* risk engine POST /api/assess: score, decide, INSERT INTO risk_assessments
assess_risk ==
    /\ Len(risk_assessments) < Len(AssessedRequests)
    /\ LET in == AssessedRequests[Len(risk_assessments) + 1]
           score == calculate_risk(in.ml, in.owasp, in.beh)
           d == decide_action(score, AUTOMATION_LEVEL)
       IN  risk_assessments' =
               Append(risk_assessments,
                      [request_id |-> Len(risk_assessments) + 1,
                       client_ip |-> in.client_ip, risk_score |-> score,
                       risk_level |-> d.level, recommended_action |-> d.action,
                       automation_level |-> AUTOMATION_LEVEL])
    /\ UNCHANGED <<riskVars, repVars, wafVars, soar_actions, incidents, soar_redis,
                   ENABLE_AUTO_BLOCK, ENABLE_CAPTCHA, redis_client, last_call, ncalls,
                   utcnow>>

\* SOAR POST /api/execute with an assessment id that exists; the override
\* "" is the absent action_type (None), "QUARANTINE" a type the executor
\* does not know
execute_soar ==
    /\ ncalls < MaxCalls
    /\ \E id \in 1..Len(risk_assessments), override \in {"", "BLOCK_IP", "QUARANTINE"} :
        \E waf \in waf_outcomes(IF override # "" THEN override
                                 ELSE risk_assessments[id].recommended_action),
           redis_ok \in redis_outcomes(IF override # "" THEN override
                                       ELSE risk_assessments[id].recommended_action) :
          LET assessment == risk_assessments[id]
              action_type == IF override # "" THEN override
                             ELSE assessment.recommended_action
              target_ip == assessment.client_ip
              score == assessment.risk_score
              duration == duration_for(score)
              result == execute_action(action_type, target_ip, duration, waf,
                                       redis_ok, ExecutorState)
              incident ==
                  [incident_type |-> assessment.recommended_action,
                   severity |-> incident_severity(score),
                   status |-> IF ~result.executed THEN "OPEN" ELSE "INVESTIGATING",
                   source_ip |-> target_ip, blocked_requests_count |-> 1,
                   total_requests_involved |-> 1, false_positive |-> FALSE]
              action ==
                  [risk_assessment_id |-> id, action_type |-> action_type,
                   action_status |-> action_status(result.executed),
                   target_ip |-> target_ip, duration_minutes |-> duration,
                   rollback_at |-> 0, rollback_reason |-> ""]
          IN  /\ waf_blocked_ip' = result.blocked
              /\ soar_redis' = result.redis
              /\ ncalls' = ncalls + 1
              /\ IF result.raised
                    \* except Exception: HTTP 500, nothing stored
                    THEN /\ UNCHANGED <<incidents, soar_actions>>
                         /\ last_call' =
                               [op |-> "execute", action_type |-> action_type,
                                target_ip |-> target_ip, waf |-> result.waf, redis_ok |-> redis_ok,
                                waf_calls |-> Len(waf_calls(action_type, waf, ExecutorState)),
                                status |-> 500, executed |-> FALSE,
                                action_id |-> 0, incident_id |-> 0]
                    ELSE /\ incidents' = IF score >= 800 THEN Append(incidents, incident)
                                         ELSE incidents
                         /\ soar_actions' = Append(soar_actions, action)
                         /\ last_call' =
                               [op |-> "execute", action_type |-> action_type,
                                target_ip |-> target_ip, waf |-> result.waf, redis_ok |-> redis_ok,
                                waf_calls |-> Len(waf_calls(action_type, waf, ExecutorState)),
                                status |-> 200, executed |-> result.executed,
                                action_id |-> Len(soar_actions) + 1,
                                incident_id |-> IF score >= 800 THEN Len(incidents) + 1
                                                ELSE 0]
    /\ UNCHANGED <<riskVars, repVars, pipelineVars, risk_assessments,
                   ENABLE_AUTO_BLOCK, ENABLE_CAPTCHA, redis_client, utcnow>>

\* SOAR POST /api/execute with an unknown assessment id: HTTP 404
execute_soar_not_found ==
    /\ ncalls < MaxCalls
    /\ ncalls' = ncalls + 1
    /\ last_call' = [NoCall EXCEPT !.op = "execute", !.status = 404]
    /\ UNCHANGED <<riskVars, repVars, wafVars, risk_assessments, soar_actions, incidents,
                   soar_redis, ENABLE_AUTO_BLOCK, ENABLE_CAPTCHA, redis_client, utcnow>>

\* SOAR POST /api/manual-action (duration_minutes at its default)
manual_action ==
    /\ ncalls < MaxCalls
    /\ \E target_ip \in IPs, action_type \in ActionTypes \cup {"QUARANTINE"} :
        \E waf \in waf_outcomes(action_type), redis_ok \in redis_outcomes(action_type) :
          LET duration == 60
              result == execute_action(action_type, target_ip, duration, waf,
                                       redis_ok, ExecutorState)
              action ==
                  [risk_assessment_id |-> 0, action_type |-> action_type,
                   action_status |-> action_status(result.executed),
                   target_ip |-> target_ip, duration_minutes |-> duration,
                   rollback_at |-> 0, rollback_reason |-> ""]
          IN  /\ waf_blocked_ip' = result.blocked
              /\ soar_redis' = result.redis
              /\ ncalls' = ncalls + 1
              /\ IF result.raised
                    \* the exception is not handled: HTTP 500, nothing stored
                    THEN /\ UNCHANGED soar_actions
                         /\ last_call' =
                               [op |-> "manual", action_type |-> action_type,
                                target_ip |-> target_ip, waf |-> result.waf, redis_ok |-> redis_ok,
                                waf_calls |-> Len(waf_calls(action_type, waf, ExecutorState)),
                                status |-> 500, executed |-> FALSE,
                                action_id |-> 0, incident_id |-> 0]
                    ELSE /\ soar_actions' = Append(soar_actions, action)
                         /\ last_call' =
                               [op |-> "manual", action_type |-> action_type,
                                target_ip |-> target_ip, waf |-> result.waf, redis_ok |-> redis_ok,
                                waf_calls |-> Len(waf_calls(action_type, waf, ExecutorState)),
                                status |-> 200, executed |-> result.executed,
                                action_id |-> Len(soar_actions) + 1, incident_id |-> 0]
    /\ UNCHANGED <<riskVars, repVars, pipelineVars, risk_assessments, incidents,
                   ENABLE_AUTO_BLOCK, ENABLE_CAPTCHA, redis_client, utcnow>>

\* the configuration is the default one; the SOAR may have come up without
\* a key store client
InitSoar ==
    /\ RiskIdle
    /\ InitEngine
    /\ AUTOMATION_LEVEL = "semi-auto"
    /\ InitRep
    /\ InitWaf
    /\ InitSoarTables
    /\ ENABLE_AUTO_BLOCK = TRUE
    /\ ENABLE_CAPTCHA = TRUE
    /\ redis_client \in BOOLEAN

NextSoar ==
    \/ assess_risk
    \/ execute_soar
    \/ execute_soar_not_found
    \/ manual_action

SpecSoar == InitSoar /\ [][NextSoar]_vars

\* the SOAR under each setting of ENABLE_AUTO_BLOCK and ENABLE_CAPTCHA
InitConfig ==
    /\ RiskIdle
    /\ InitEngine
    /\ AUTOMATION_LEVEL = "semi-auto"
    /\ InitRep
    /\ InitWaf
    /\ InitSoarTables
    /\ ENABLE_AUTO_BLOCK \in BOOLEAN
    /\ ENABLE_CAPTCHA \in BOOLEAN
    /\ redis_client \in BOOLEAN

\* SpecConfig: the executor of SpecSoar under every configuration
SpecConfig == InitConfig /\ [][NextSoar]_vars

\* ------------------------------------------------------------------------
\* SOAR: store failures after the executor ran, rollback, and the incident
\* endpoints of the SOAR and of the admin console
\* ------------------------------------------------------------------------
\* SOAR POST /api/execute, the executor returned and a later INSERT raised:
\* at "incident" the INSERT INTO incidents, at "action" the INSERT INTO
\* soar_actions (the statements run in autocommit, an incident inserted
\* before the failure stays). except Exception: HTTP 500.
execute_soar_store_failed ==
    /\ ncalls < MaxCalls
    /\ \E id \in 1..Len(risk_assessments), override \in {"", "BLOCK_IP", "QUARANTINE"},
          failed_at \in {"incident", "action"} :
        \E waf \in waf_outcomes(IF override # "" THEN override
                                 ELSE risk_assessments[id].recommended_action),
           redis_ok \in redis_outcomes(IF override # "" THEN override
                                       ELSE risk_assessments[id].recommended_action) :
          LET assessment == risk_assessments[id]
              action_type == IF override # "" THEN override
                             ELSE assessment.recommended_action
              target_ip == assessment.client_ip
              score == assessment.risk_score
              duration == duration_for(score)
              result == execute_action(action_type, target_ip, duration, waf,
                                       redis_ok, ExecutorState)
              incident ==
                  [incident_type |-> assessment.recommended_action,
                   severity |-> incident_severity(score),
                   status |-> IF ~result.executed THEN "OPEN" ELSE "INVESTIGATING",
                   source_ip |-> target_ip, blocked_requests_count |-> 1,
                   total_requests_involved |-> 1, false_positive |-> FALSE]
          IN  /\ ~result.raised
              /\ failed_at = "incident" => score >= 800
              /\ waf_blocked_ip' = result.blocked
              /\ soar_redis' = result.redis
              /\ ncalls' = ncalls + 1
              /\ incidents' = IF score >= 800 /\ failed_at = "action"
                                  THEN Append(incidents, incident)
                                  ELSE incidents
              /\ last_call' =
                    [op |-> "execute", action_type |-> action_type,
                     target_ip |-> target_ip, waf |-> result.waf, redis_ok |-> redis_ok,
                     waf_calls |-> Len(waf_calls(action_type, waf, ExecutorState)),
                     status |-> 500, executed |-> result.executed,
                     action_id |-> 0, incident_id |-> 0]
    /\ UNCHANGED <<riskVars, repVars, pipelineVars, risk_assessments, soar_actions,
                   ENABLE_AUTO_BLOCK, ENABLE_CAPTCHA, redis_client, utcnow>>

\* SOAR POST /api/manual-action, the executor returned and the INSERT INTO
\* soar_actions raised: the exception is not handled, HTTP 500
manual_action_store_failed ==
    /\ ncalls < MaxCalls
    /\ \E target_ip \in IPs, action_type \in ActionTypes \cup {"QUARANTINE"} :
        \E waf \in waf_outcomes(action_type), redis_ok \in redis_outcomes(action_type) :
          LET duration == 60
              result == execute_action(action_type, target_ip, duration, waf,
                                       redis_ok, ExecutorState)
          IN  /\ ~result.raised
              /\ waf_blocked_ip' = result.blocked
              /\ soar_redis' = result.redis
              /\ ncalls' = ncalls + 1
              /\ last_call' =
                    [op |-> "manual", action_type |-> action_type,
                     target_ip |-> target_ip, waf |-> result.waf, redis_ok |-> redis_ok,
                     waf_calls |-> Len(waf_calls(action_type, waf, ExecutorState)),
                     status |-> 500, executed |-> result.executed,
                     action_id |-> 0, incident_id |-> 0]
    /\ UNCHANGED <<riskVars, repVars, pipelineVars, risk_assessments, soar_actions, incidents,
                   ENABLE_AUTO_BLOCK, ENABLE_CAPTCHA, redis_client, utcnow>>

\* WAF admin_unblock_ip: DELETE blocked_ip:<ip> when the WAF has a key store;
\* the outcomes are those of WafOutcomes, "applied" meaning the key was deleted
admin_unblock_ip(blocked, waf, ip) ==
    IF waf \in {"ok_applied", "timeout_applied"}
        THEN [blocked EXCEPT ![ip] = NoEntry]
        ELSE blocked

\* redis_client.delete(<kind>:<ip>)
delete(store, kind, ip) == [store EXCEPT ![<<kind, ip>>] = NoEntry]

\* rollback, the part that reverses the enforcement: the WAF's answer is not
\* looked at and an exception of the call is passed over; a marker is deleted
\* only when the SOAR has a key store. Returns whether an exception escaped
\* and the stores afterwards.
reverse_action(action, waf, redis_ok, st) ==
    IF action.action_type = "BLOCK_IP" THEN
        [raised |-> FALSE, waf |-> waf,
         blocked |-> admin_unblock_ip(st.blocked, waf, action.target_ip),
         redis |-> st.redis]
    ELSE IF action.action_type \in {"RATE_LIMIT", "CAPTCHA"} /\ st.redis_client THEN
        IF redis_ok
            THEN [raised |-> FALSE, waf |-> "none", blocked |-> st.blocked,
                  redis |-> delete(st.redis,
                                   IF action.action_type = "RATE_LIMIT"
                                       THEN "rate_limit_strict" ELSE "require_captcha",
                                   action.target_ip)]
            ELSE [raised |-> TRUE, waf |-> "none", blocked |-> st.blocked,
                  redis |-> st.redis]
    ELSE [raised |-> FALSE, waf |-> "none", blocked |-> st.blocked, redis |-> st.redis]

\* UPDATE soar_actions SET rollback_at=$1, rollback_reason=$2 WHERE id=$3
set_rollback(table, action_id, now) ==
    [table EXCEPT ![action_id] =
        [@ EXCEPT !.rollback_at = now, !.rollback_reason = "Manual rollback"]]

\* SOAR POST /api/rollback/{action_id} with the id of a stored action
rollback ==
    /\ utcnow < MaxRollbacks
    /\ \E action_id \in 1..Len(soar_actions) :
        \E waf \in IF soar_actions[action_id].action_type = "BLOCK_IP"
                       THEN WafOutcomes ELSE {"none"},
           redis_ok \in IF soar_actions[action_id].action_type \in {"RATE_LIMIT", "CAPTCHA"}
                              /\ redis_client
                           THEN BOOLEAN ELSE {TRUE} :
          LET action == soar_actions[action_id]
              result == reverse_action(action, waf, redis_ok, ExecutorState)
          IN  /\ waf_blocked_ip' = result.blocked
              /\ soar_redis' = result.redis
              /\ IF result.raised
                    \* the exception is not handled: HTTP 500, no UPDATE
                    THEN /\ UNCHANGED <<soar_actions, utcnow>>
                         /\ last_call' =
                               [op |-> "rollback", action_type |-> action.action_type,
                                target_ip |-> action.target_ip, waf |-> result.waf,
                                waf_calls |-> IF waf = "none" THEN 0 ELSE 1,
                                redis_ok |-> redis_ok, status |-> 500,
                                executed |-> FALSE, action_id |-> action_id,
                                incident_id |-> 0]
                    ELSE /\ utcnow' = utcnow + 1
                         /\ soar_actions' = set_rollback(soar_actions, action_id, utcnow + 1)
                         /\ last_call' =
                               [op |-> "rollback", action_type |-> action.action_type,
                                target_ip |-> action.target_ip, waf |-> result.waf,
                                waf_calls |-> IF waf = "none" THEN 0 ELSE 1,
                                redis_ok |-> redis_ok, status |-> 200,
                                executed |-> FALSE, action_id |-> action_id,
                                incident_id |-> 0]
    /\ UNCHANGED <<riskVars, repVars, pipelineVars, risk_assessments, incidents,
                   ENABLE_AUTO_BLOCK, ENABLE_CAPTCHA, redis_client, ncalls>>

\* a rollback that answers success for an id no stored action has
rollback_not_found_silent ==
    /\ last_call' = [NoCall EXCEPT !.op = "rollback", !.status = 200,
                                   !.action_id = Len(soar_actions) + 1]
    /\ UNCHANGED <<riskVars, repVars, wafVars, risk_assessments, soar_actions, incidents,
                   soar_redis, ENABLE_AUTO_BLOCK, ENABLE_CAPTCHA, redis_client, ncalls,
                   utcnow>>

\* SOAR POST /api/rollback/{action_id} with an id no stored action has
\* (a well-formed one): HTTP 404
rollback_not_found ==
    /\ last_call' = [NoCall EXCEPT !.op = "rollback", !.status = 404,
                                   !.action_id = Len(soar_actions) + 1]
    /\ UNCHANGED <<riskVars, repVars, wafVars, risk_assessments, soar_actions, incidents,
                   soar_redis, ENABLE_AUTO_BLOCK, ENABLE_CAPTCHA, redis_client, ncalls,
                   utcnow>>

\* the statuses of the Incident enum
IncidentStatuses == {"OPEN", "INVESTIGATING", "RESOLVED"}

\* the status strings sent to PUT /api/incidents/{id}: the parameter is any
\* string, "REOPENED" stands for those outside the enum
StatusInputs == IncidentStatuses \cup {"REOPENED"}

\* SOAR POST /api/incidents: INSERT INTO incidents ... 'OPEN'
create_incident ==
    /\ Len(incidents) < MaxIncidents
    /\ \E source_ip \in IPs, severity \in {"HIGH", "CRITICAL"} :
          incidents' =
              Append(incidents,
                     [incident_type |-> "THREAT", severity |-> severity,
                      status |-> "OPEN", source_ip |-> source_ip,
                      blocked_requests_count |-> 0, total_requests_involved |-> 1,
                      false_positive |-> FALSE])
    /\ UNCHANGED <<riskVars, repVars, wafVars, risk_assessments, soar_actions,
                   soar_redis, ENABLE_AUTO_BLOCK, ENABLE_CAPTCHA, redis_client,
                   last_call, ncalls, utcnow>>

\* UPDATE incidents SET status=$1, updated_at=$2 WHERE id=$3
set_status(table, incident_id, status) ==
    [table EXCEPT ![incident_id] = [@ EXCEPT !.status = status]]

\* SOAR PUT /api/incidents/{incident_id}?status=
update_incident ==
    /\ \E incident_id \in 1..Len(incidents), status \in StatusInputs :
          incidents' = set_status(incidents, incident_id, status)
    /\ UNCHANGED <<riskVars, repVars, wafVars, risk_assessments, soar_actions,
                   soar_redis, ENABLE_AUTO_BLOCK, ENABLE_CAPTCHA, redis_client,
                   last_call, ncalls, utcnow>>

\* admin console PUT /api/incidents/{incident_id}?status=, the same UPDATE
admin_update_incident ==
    /\ \E incident_id \in 1..Len(incidents), status \in StatusInputs :
          incidents' = set_status(incidents, incident_id, status)
    /\ UNCHANGED <<riskVars, repVars, wafVars, risk_assessments, soar_actions,
                   soar_redis, ENABLE_AUTO_BLOCK, ENABLE_CAPTCHA, redis_client,
                   last_call, ncalls, utcnow>>

\* SpecStore: the executor endpoints with the store failing after the executor ran
NextStore ==
    \/ assess_risk
    \/ execute_soar
    \/ execute_soar_not_found
    \/ manual_action
    \/ execute_soar_store_failed
    \/ manual_action_store_failed

SpecStore == InitSoar /\ [][NextStore]_vars

\* SpecRollback: manual actions and their rollback
NextRollback ==
    \/ manual_action
    \/ rollback
    \/ rollback_not_found

SpecRollback == InitSoar /\ [][NextRollback]_vars

\* SpecIncident: the incident endpoints
NextIncident ==
    \/ create_incident
    \/ update_incident
    \/ admin_update_incident

SpecIncident == InitSoar /\ [][NextIncident]_vars

Init ==
    /\ RiskIdle
    /\ InitEngine
    /\ AUTOMATION_LEVEL = "semi-auto"
    /\ InitRep
    /\ InitWaf
    /\ InitSoarTables
    /\ ENABLE_AUTO_BLOCK = TRUE
    /\ ENABLE_CAPTCHA = TRUE
    /\ redis_client = TRUE

Next ==
    \/ ingest_request
    \/ store_in_postgres
    \/ block_ip
    \/ unblock_ip
    \/ whitelist_ip

Spec == Init /\ [][Next]_vars

\* ------------------------------------------------------------------------
\* SpecRisk: the scorer and the decision policy applied to bounded inputs
\* ------------------------------------------------------------------------
InitRisk ==
    /\ RiskIdle
    /\ InitEngine
    /\ AUTOMATION_LEVEL \in AutomationLevels
    /\ InitRep
    /\ InitWaf
    /\ InitSoarTables
    /\ ENABLE_AUTO_BLOCK = TRUE
    /\ ENABLE_CAPTCHA = TRUE
    /\ redis_client = TRUE

\* risk_score = calculate_risk(...); decision = decide_action(risk_score)
Assess(ml, owasp, beh) ==
    /\ ml_data' = ml
    /\ owasp_data' = owasp
    /\ behavioral' = beh
    /\ risk_score' = calculate_risk(ml, owasp, beh)
    /\ decision' = decide_action(calculate_risk(ml, owasp, beh), AUTOMATION_LEVEL)
    /\ op' = "assess"
    /\ UNCHANGED <<AUTOMATION_LEVEL, engineVars, repVars, wafVars, soarVars>>

\* a (new) verdict is stored for the request, which is then assessed
AssessVerdict ==
    \E ml \in VerdictInputs \cup {EmptyDict} : Assess(ml, owasp_data, behavioral)

\* one more detection is recorded for the request, which is then assessed
AssessDetection ==
    /\ Len(owasp_data) < MaxDetections
    /\ \E d \in DetectionInputs : Assess(ml_data, Append(owasp_data, d), behavioral)

\* the severity of one recorded detection changes, and the request is assessed
AssessSeverity ==
    \E i \in 1..Len(owasp_data), d \in DetectionInputs :
        Assess(ml_data, [owasp_data EXCEPT ![i] = d], behavioral)

\* the source's blocked ratio changes, and the request is assessed
AssessBehavioral ==
    \E beh \in BehavioralInputs \cup {NoBehavioral} : Assess(ml_data, owasp_data, beh)

NextRisk ==
    \/ AssessVerdict
    \/ AssessDetection
    \/ AssessSeverity
    \/ AssessBehavioral

SpecRisk == InitRisk /\ [][NextRisk]_vars

\* ------------------------------------------------------------------------
\* WAF: detection engine and request middleware (waf/main.py)
\* ------------------------------------------------------------------------
WafModes == {"audit", "block", "strict"}

\* OWASP_PATTERNS in the order of the dict; patterns is the number of regular
\* expressions of the category, and <<type, i>> names the i-th of them
OWASP_PATTERNS ==
    << [type |-> "SQL_INJECTION", code |-> "A03:2021", severity |-> "CRITICAL", patterns |-> 9],
       [type |-> "XSS", code |-> "A03:2021", severity |-> "HIGH", patterns |-> 9],
       [type |-> "PATH_TRAVERSAL", code |-> "A01:2021", severity |-> "HIGH", patterns |-> 6],
       [type |-> "COMMAND_INJECTION", code |-> "A03:2021", severity |-> "CRITICAL", patterns |-> 6],
       [type |-> "XXE", code |-> "A05:2021", severity |-> "HIGH", patterns |-> 3],
       [type |-> "SSRF", code |-> "A10:2021", severity |-> "HIGH", patterns |-> 4],
       [type |-> "SCANNER", code |-> "A05:2021", severity |-> "MEDIUM", patterns |-> 5] >>

SUSPICIOUS_USER_AGENTS ==
    << "sqlmap", "nikto", "nmap", "masscan", "acunetix", "nessus",
       "openvas", "dirbuster", "gobuster", "hydra", "medusa" >>

\* re.search(pattern, content, re.IGNORECASE): the inspected content (URL,
\* query and body, lowercased) is represented by the set of the patterns
\* that match it
re_search(pattern, content) == pattern \in content

\* the loop over OWASP_PATTERNS: the first matching pattern of a category
\* appends one detection and breaks out of the category
pattern_detections(content) ==
    LET matches(config) ==
            \E i \in 1..config.patterns : re_search(<<config.type, i>>, content)
        hit == SelectSeq(OWASP_PATTERNS, matches)
    IN  [i \in 1..Len(hit) |->
            [type |-> hit[i].type, code |-> hit[i].code, severity |-> hit[i].severity,
             confidence |-> 900, ua |-> ""]]

\* the loop over SUSPICIOUS_USER_AGENTS: the User-Agent (lowercased) is
\* represented by the set of the names it contains; the first name found
\* appends a SCANNER detection
ua_detections(ua) ==
    LET found == {i \in 1..Len(SUSPICIOUS_USER_AGENTS) : SUSPICIOUS_USER_AGENTS[i] \in ua}
    IN  IF found = {} THEN <<>>
        ELSE << [type |-> "SCANNER", code |-> "A05:2021", severity |-> "MEDIUM",
                 confidence |-> 950,
                 ua |-> SUSPICIOUS_USER_AGENTS[CHOOSE i \in found : \A j \in found : i <= j]] >>

detect_owasp_by_mode(content, ua) ==
    IF WAF_MODE = "audit" THEN <<>> ELSE pattern_detections(content) \o ua_detections(ua)

detect_owasp(content, ua) == pattern_detections(content) \o ua_detections(ua)

\* inspected contents: nothing matches; two SQL injection patterns match;
\* an XSS pattern and the scanner pattern (sqlmap) match
ContentInputs ==
    { {},
      {<<"SQL_INJECTION", 1>>, <<"SQL_INJECTION", 4>>},
      {<<"SCANNER", 1>>, <<"XSS", 1>>} }

\* User-Agent headers: a browser; one that contains hydra and sqlmap
UserAgentInputs == { {}, {"hydra", "sqlmap"} }

WafRequests == [client_ip : IPs, content : ContentInputs, ua : UserAgentInputs]

\* outcome of the POST to /api/ingest: stored, refused or unreachable, no
\* answer within 3 seconds
HandoffOutcomes == {"ok", "failed", "timeout"}

\* an is_ip_blocked that never finds the key
is_ip_blocked_never(client_ip) == FALSE

\* is_ip_blocked: GET blocked_ip:<ip>, no key store -> not blocked
is_ip_blocked(client_ip) == waf_redis_client /\ waf_blocked_ip[client_ip].present

\* a check_rate_limit that already refuses the request that reaches the limit
check_rate_limit_strict(client_ip) ==
    IF ~waf_redis_client
        THEN [ok |-> TRUE, ratelimit |-> waf_ratelimit, window |-> waf_window]
        ELSE [ok |-> waf_ratelimit[client_ip] + 1 < RATE_LIMIT_PER_MINUTE,
              ratelimit |-> [waf_ratelimit EXCEPT ![client_ip] = @ + 1],
              window |-> IF waf_ratelimit[client_ip] + 1 = 1
                            THEN [waf_window EXCEPT ![client_ip] = 1]
                            ELSE waf_window]

\* check_rate_limit: INCR ratelimit:<ip>, EXPIRE 60 (one minute) when the
\* counter is 1, and compare with the limit; no key store -> (True, 0)
check_rate_limit(client_ip) ==
    IF ~waf_redis_client
        THEN [ok |-> TRUE, ratelimit |-> waf_ratelimit, window |-> waf_window]
        ELSE [ok |-> waf_ratelimit[client_ip] + 1 <= RATE_LIMIT_PER_MINUTE,
              ratelimit |-> [waf_ratelimit EXCEPT ![client_ip] = @ + 1],
              window |-> IF waf_ratelimit[client_ip] + 1 = 1
                            THEN [waf_window EXCEPT ![client_ip] = 1]
                            ELSE waf_window]

\* a block_ip that stores the key without expiry (SET): a time to live of -1
waf_block_ip_persistent(client_ip, reason, duration_minutes) ==
    IF waf_redis_client
        THEN [waf_blocked_ip EXCEPT
                 ![client_ip] = [DenyEntry(reason, duration_minutes) EXCEPT !.ttl = -1]]
        ELSE waf_blocked_ip

\* the WAF's own block_ip: SETEX blocked_ip:<ip>, nothing without a key store
waf_block_ip(client_ip, reason, duration_minutes) ==
    IF waf_redis_client
        THEN [waf_blocked_ip EXCEPT ![client_ip] = DenyEntry(reason, duration_minutes)]
        ELSE waf_blocked_ip

\* send_to_ingestion: the record is posted with a timeout of 3 seconds and
\* any exception is passed over
send_to_ingestion(data, outcome) ==
    [sent |-> IF outcome = "ok" THEN SetToBag({data}) ELSE EmptyBag,
     delivered |-> outcome = "ok"]

create_task_awaited(status, task) == IF task.delivered THEN status ELSE 500

\* asyncio.create_task(send_to_ingestion(...)) followed by the return of the
\* response: the response does not wait for the task nor see its result
create_task(status, task) == status

\* a rate limit that is enforced in audit mode too
rejects_on_rate_any_mode(mode, rate_ok) == ~rate_ok

\* if not rate_ok and WAF_MODE in ("block", "strict")
rejects_on_rate(mode, rate_ok) == ~rate_ok /\ mode \in {"block", "strict"}

\* a block mode that rejects on every detection, like strict
blocks_on_detection_any_severity(mode, is_suspicious, critical) ==
    is_suspicious /\ mode \in {"block", "strict"}

\* if is_suspicious and WAF_MODE in ("block", "strict"):
\*     if critical or WAF_MODE == "strict": is_blocked_now = True
blocks_on_detection(mode, is_suspicious, critical) ==
    /\ is_suspicious
    /\ mode \in {"block", "strict"}
    /\ (critical \/ mode = "strict")

\* the middleware for a request whose path is not /health: the response, the
\* keys of the key store and the record handed to the event store
waf_pipeline(req, outcome) ==
    LET ip == req.client_ip
        rate == check_rate_limit(ip)
        detections == detect_owasp(req.content, req.ua)
        is_suspicious == Len(detections) > 0
        critical == \E i \in 1..Len(detections) : detections[i].severity = "CRITICAL"
        is_blocked_now == blocks_on_detection(WAF_MODE, is_suspicious, critical)
        task(is_blocked, suspicious) ==
            send_to_ingestion([client_ip |-> ip, is_blocked |-> is_blocked,
                               is_suspicious |-> suspicious], outcome)
    IN  IF is_ip_blocked(ip)
            THEN [status |-> create_task(403, task(TRUE, FALSE)), error |-> "Access Denied",
                  blocked |-> waf_blocked_ip, ratelimit |-> waf_ratelimit,
                  window |-> waf_window, sent |-> task(TRUE, FALSE).sent,
                  evaluated |-> FALSE, detections |-> <<>>]
        ELSE IF rejects_on_rate(WAF_MODE, rate.ok)
            THEN [status |-> 429, error |-> "Too Many Requests",
                  blocked |-> waf_block_ip(ip, "Rate limit exceeded", 15),
                  ratelimit |-> rate.ratelimit, window |-> rate.window, sent |-> EmptyBag,
                  evaluated |-> FALSE, detections |-> <<>>]
        ELSE IF is_blocked_now
            THEN [status |-> create_task(403, task(TRUE, TRUE)), error |-> "Request Blocked",
                  blocked |-> waf_block_ip(ip, "OWASP: " \o detections[1].type, 120),
                  ratelimit |-> rate.ratelimit, window |-> rate.window,
                  sent |-> task(TRUE, TRUE).sent,
                  evaluated |-> TRUE, detections |-> detections]
        ELSE [status |-> create_task(200, task(FALSE, is_suspicious)), error |-> "",
              blocked |-> waf_blocked_ip, ratelimit |-> rate.ratelimit,
              window |-> rate.window, sent |-> task(FALSE, is_suspicious).sent,
              evaluated |-> TRUE, detections |-> detections]

RECURSIVE SumOver(_, _)
\* sum of the counters f[x] for x in S
SumOver(f, S) ==
    IF S = {} THEN 0
    ELSE LET x == CHOOSE y \in S : TRUE IN f[x] + SumOver(f, S \ {x})

\* waf_middleware: one request to a path other than /health
waf_middleware ==
    /\ SumOver(waf_handled, IPs) < MaxRequests
    /\ \E req \in WafRequests, outcome \in HandoffOutcomes :
          LET r == waf_pipeline(req, outcome)
          IN  /\ waf_blocked_ip' = r.blocked
              /\ waf_ratelimit' = r.ratelimit
              /\ waf_window' = r.window
              /\ in_flight' = in_flight (+) r.sent
              /\ waf_handled' = [waf_handled EXCEPT ![req.client_ip] = @ + 1]
              /\ waf_response' =
                    [client_ip |-> req.client_ip, path |-> "/", content |-> req.content,
                     ua |-> req.ua, status |-> r.status, error |-> r.error]
              /\ waf_detect' =
                    IF r.evaluated
                        THEN [evaluated |-> TRUE, content |-> req.content, ua |-> req.ua,
                              mode |-> WAF_MODE, detections |-> r.detections]
                        ELSE waf_detect
    /\ UNCHANGED <<WAF_MODE, RATE_LIMIT_PER_MINUTE, waf_redis_client,
                   ip_reputation, raw_requests, riskVars, soarVars>>

\* waf_middleware: a request to /health skips the pipeline, before the source
\* of the request is even read
waf_health ==
    /\ waf_response' =
          [client_ip |-> "", path |-> "/health", content |-> {}, ua |-> {}, status |-> 200,
           error |-> ""]
    /\ UNCHANGED <<waf_blocked_ip, WAF_MODE, RATE_LIMIT_PER_MINUTE, waf_redis_client,
                   waf_ratelimit, waf_window, waf_handled, waf_detect, repVars, riskVars,
                   soarVars>>

\* POST /admin/change-mode: a mode other than audit, block, strict is refused
change_mode ==
    /\ \E mode \in WafModes \cup {"off"} :
          WAF_MODE' = IF mode \in WafModes THEN mode ELSE WAF_MODE
    /\ UNCHANGED <<waf_blocked_ip, RATE_LIMIT_PER_MINUTE, waf_redis_client,
                   waf_ratelimit, waf_window, waf_handled, waf_response, waf_detect,
                   repVars, riskVars, soarVars>>

\* the times to live of the keys of the WAF's key store that are to expire
LiveTtls ==
    { t \in { waf_blocked_ip[ip].ttl : ip \in IPs } \cup { waf_window[ip] : ip \in IPs } :
        t > 0 }

\* a key after dt minutes: gone when its time to live is used up; a key
\* stored without expiry (time to live -1) stays
expire_entry(entry, dt) ==
    IF ~entry.present \/ entry.ttl < 0 THEN entry
    ELSE IF entry.ttl <= dt THEN NoEntry
    ELSE [entry EXCEPT !.ttl = @ - dt]

\* the key store expires keys: time advances to the instant at which the
\* next key of the WAF's store runs out; that key is removed, the time to
\* live of every other key is reduced
elapse ==
    /\ LiveTtls # {}
    /\ LET dt == CHOOSE t \in LiveTtls : \A u \in LiveTtls : t <= u
       IN  /\ waf_blocked_ip' = [ip \in IPs |-> expire_entry(waf_blocked_ip[ip], dt)]
           /\ waf_window' =
                 [ip \in IPs |-> IF waf_window[ip] <= dt THEN 0 ELSE waf_window[ip] - dt]
           /\ waf_ratelimit' =
                 [ip \in IPs |-> IF waf_window[ip] <= dt THEN 0 ELSE waf_ratelimit[ip]]
    /\ UNCHANGED <<WAF_MODE, RATE_LIMIT_PER_MINUTE, waf_redis_client, waf_handled,
                   waf_response, waf_detect, repVars, riskVars, soarVars>>

\* the WAF with a limit of 0 or 1 requests per minute, so that the first or
\* the second request of an identity exceeds it
InitExpiry ==
    /\ RiskIdle
    /\ InitEngine
    /\ AUTOMATION_LEVEL = "semi-auto"
    /\ InitRep
    /\ InitWafStore
    /\ WAF_MODE = "audit"
    /\ RATE_LIMIT_PER_MINUTE \in {0, 1}
    /\ waf_redis_client \in BOOLEAN
    /\ InitSoarTables
    /\ ENABLE_AUTO_BLOCK = TRUE
    /\ ENABLE_CAPTCHA = TRUE
    /\ redis_client = TRUE

\* the WAF starts with or without a key store, in mode audit and with
\* MAX_REQUESTS_PER_MINUTE=1, a limit that the requests of the model exceed
InitPipeline ==
    /\ RiskIdle
    /\ InitEngine
    /\ AUTOMATION_LEVEL = "semi-auto"
    /\ InitRep
    /\ InitWafStore
    /\ WAF_MODE = "audit"
    /\ RATE_LIMIT_PER_MINUTE = 1
    /\ waf_redis_client \in BOOLEAN
    /\ InitSoarTables
    /\ ENABLE_AUTO_BLOCK = TRUE
    /\ ENABLE_CAPTCHA = TRUE
    /\ redis_client = TRUE

\* SpecWaf: requests through the WAF, whose records the event store commits
NextWaf ==
    \/ waf_middleware
    \/ waf_health
    \/ change_mode
    \/ store_in_postgres

SpecWaf == InitPipeline /\ [][NextWaf]_vars

\* SpecExpiry: requests through the WAF while the keys of its store expire
\* and the operator unblocks identities
NextExpiry ==
    \/ waf_middleware
    \/ change_mode
    \/ unblock_ip
    \/ elapse

SpecExpiry == InitExpiry /\ [][NextExpiry]_vars

\* ------------------------------------------------------------------------
\* Risk engine service: startup and POST /api/assess (risk-engine/main.py)
\* ------------------------------------------------------------------------
\* the requests of table raw_requests, the id of a request is its index, with
\* what assess_risk reads for each: the latest verdict, the detections and
\* blocked_requests / max(total_requests, 1) of the source.  Request 1 has no
\* verdict, request 2 is the scenario of spec section 8, request 3 has no
\* signal at all
StoredRequests ==
    << [client_ip |-> "10.0.0.1", ml |-> EmptyDict,
        owasp |-> << [owasp_category |-> "XSS", severity |-> "HIGH"] >>,
        beh |-> [present |-> TRUE, blocked_ratio |-> 250]],
       [client_ip |-> "10.0.0.1",
        ml |-> [present |-> TRUE, anomaly_score |-> 900, attack_probability |-> 800],
        owasp |-> << [owasp_category |-> "SQL_INJECTION", severity |-> "CRITICAL"] >>,
        beh |-> [present |-> TRUE, blocked_ratio |-> 600]],
       [client_ip |-> "10.0.0.2", ml |-> EmptyDict, owasp |-> <<>>, beh |-> NoBehavioral] >>

\* values of RISK_THRESHOLD_BLOCK and RISK_THRESHOLD_CAPTCHA in the
\* environment: the defaults, block below captcha, block above 1, captcha
\* below 0.5, captcha below 0
ThresholdInputs ==
    { [block |-> 900, captcha |-> 700],
      [block |-> 600, captcha |-> 800],
      [block |-> 1500, captcha |-> 700],
      [block |-> 900, captcha |-> 300],
      [block |-> 900, captcha |-> -100] }

\* outcome of the database calls of one assessment
StoreOutcomes == {"ok", "failed", "timeout"}

\* lifespan: connect to the database, ensure_tables, yield
lifespan ==
    /\ ~engine_started
    /\ engine_started' = TRUE
    /\ UNCHANGED <<ml_data, owasp_data, behavioral, risk_score, decision,
                   AUTOMATION_LEVEL, op, threshold_block, threshold_captcha,
                   assess_last, nassess, repVars, wafVars, soarVars>>

\* INSERT INTO risk_assessments (request_id, ..., risk_score, risk_level,
\* recommended_action, automation_level, ...) RETURNING id
insert_assessment(table, request_id, client_ip, score, d) ==
    Append(table,
           [request_id |-> request_id, client_ip |-> client_ip, risk_score |-> score,
            risk_level |-> d.level, recommended_action |-> d.action,
            automation_level |-> AUTOMATION_LEVEL])

\* POST /api/assess for a stored request: read, score, decide, insert; any
\* exception of a database call is answered with HTTP 500 "Risk error"
api_assess ==
    /\ engine_started
    /\ nassess < MaxAssessments
    /\ \E request_id \in 1..Len(StoredRequests), store \in StoreOutcomes :
          LET in == StoredRequests[request_id]
              score == calculate_risk(in.ml, in.owasp, in.beh)
              d == decide_action(score, AUTOMATION_LEVEL)
          IN  IF store = "ok"
                  THEN /\ risk_assessments' =
                             insert_assessment(risk_assessments, request_id,
                                               in.client_ip, score, d)
                       /\ assess_last' =
                             [request_id |-> request_id, store |-> store, status |-> 200,
                              action |-> d.action, risk_score |-> score]
                  ELSE /\ UNCHANGED risk_assessments
                       /\ assess_last' =
                             [request_id |-> request_id, store |-> store, status |-> 500,
                              action |-> "NONE", risk_score |-> 0]
    /\ nassess' = nassess + 1
    /\ UNCHANGED <<ml_data, owasp_data, behavioral, risk_score, decision,
                   AUTOMATION_LEVEL, op, threshold_block, threshold_captcha,
                   engine_started, repVars, wafVars, soar_actions, incidents,
                   soar_redis, ENABLE_AUTO_BLOCK, ENABLE_CAPTCHA, redis_client,
                   last_call, ncalls, utcnow>>

\* POST /api/assess for an id that is not in raw_requests: HTTP 404
api_assess_not_found ==
    /\ engine_started
    /\ nassess < MaxAssessments
    /\ assess_last' =
          [request_id |-> Len(StoredRequests) + 1, store |-> "ok", status |-> 404,
           action |-> "NONE", risk_score |-> 0]
    /\ nassess' = nassess + 1
    /\ UNCHANGED <<ml_data, owasp_data, behavioral, risk_score, decision,
                   AUTOMATION_LEVEL, op, threshold_block, threshold_captcha,
                   engine_started, repVars, wafVars, soarVars>>

\* the risk engine is about to start under thresholds read from the environment
InitService ==
    /\ RiskIdle
    /\ \E t \in ThresholdInputs :
          /\ threshold_block = t.block
          /\ threshold_captcha = t.captcha
    /\ engine_started = FALSE
    /\ assess_last = NoAssess
    /\ nassess = 0
    /\ AUTOMATION_LEVEL = "semi-auto"
    /\ InitRep
    /\ InitWaf
    /\ InitSoarTables
    /\ ENABLE_AUTO_BLOCK = TRUE
    /\ ENABLE_CAPTCHA = TRUE
    /\ redis_client = TRUE

\* SpecEngine: startup of the risk engine and its assess endpoint
NextEngine ==
    \/ lifespan
    \/ api_assess
    \/ api_assess_not_found

SpecEngine == InitService /\ [][NextEngine]_vars

\* ------------------------------------------------------------------------
\* Properties of the scorer and the decision policy (SpecRisk)
\* ------------------------------------------------------------------------
ActionRank(a) ==
    CASE a = "BLOCK_IP" -> 3
      [] a = "CAPTCHA" -> 2
      [] a = "RATE_LIMIT" -> 1
      [] OTHER -> 0

SeverityRank(sev) ==
    CASE sev = "CRITICAL" -> 4
      [] sev = "HIGH" -> 3
      [] sev = "MEDIUM" -> 2
      [] OTHER -> 1

\* C5: the score returned by calculate_risk is in [0,1] for every verdict,
\* every list of detections and every blocked ratio.
C5_ScoreInUnitInterval ==
    op = "assess" => (risk_score >= 0 /\ risk_score <= 1000)

VerdictRaised(m1, m2) ==
    /\ m1.present /\ m2.present
    /\ m1.anomaly_score <= m2.anomaly_score
    /\ m1.attack_probability <= m2.attack_probability

DetectionsRaised(d1, d2) ==
    /\ Len(d1) <= Len(d2)
    /\ \A i \in 1..Len(d1) : SeverityRank(d1[i].severity) <= SeverityRank(d2[i].severity)

BehavioralRaised(b1, b2) ==
    /\ b1.present /\ b2.present
    /\ b1.blocked_ratio <= b2.blocked_ratio

\* C6: raising the anomaly score, the attack probability, a detection's
\* severity (or adding a detection) or the blocked ratio, the other inputs
\* unchanged, lowers neither the score nor the severity of the chosen action.
C6_Monotone ==
    [][ ( /\ op = "assess" /\ op' = "assess"
          /\ \/ (VerdictRaised(ml_data, ml_data')
                   /\ owasp_data' = owasp_data /\ behavioral' = behavioral)
             \/ (DetectionsRaised(owasp_data, owasp_data')
                   /\ ml_data' = ml_data /\ behavioral' = behavioral)
             \/ (BehavioralRaised(behavioral, behavioral')
                   /\ ml_data' = ml_data /\ owasp_data' = owasp_data) )
        => ( /\ risk_score' >= risk_score
             /\ ActionRank(decision'.action) >= ActionRank(decision.action) ) ]_vars

\* a LOW detection was recorded after a CRITICAL one and the score kept the
\* CRITICAL contribution
C6_Witness ==
    /\ op = "assess"
    /\ Len(owasp_data) = 2
    /\ owasp_data[1].severity = "CRITICAL"
    /\ owasp_data[2].severity = "LOW"
    /\ risk_score >= 300

Scenario7 ==
    /\ op = "assess"
    /\ ml_data = [present |-> TRUE, anomaly_score |-> 900, attack_probability |-> 800]
    /\ owasp_data = << [owasp_category |-> "SQL_INJECTION", severity |-> "CRITICAL"] >>
    /\ behavioral = [present |-> TRUE, blocked_ratio |-> 600]

\* C7 (as claimed): the scenario CRITICAL SQL_INJECTION, verdict (0.9, 0.8),
\* blocked ratio 0.6 scores at least block_threshold and gives BLOCK_IP/CRITICAL.
C7_ScenarioBlocks ==
    Scenario7 => ( /\ risk_score >= RISK_THRESHOLD_BLOCK
                   /\ decision.action = "BLOCK_IP"
                   /\ decision.level = "CRITICAL" )

\* C7 (amended): the scenario scores 0.844, which is at least
\* captcha_threshold and below block_threshold, and gives CAPTCHA/HIGH.
C7_ScenarioCaptcha ==
    Scenario7 => ( /\ risk_score = 844
                   /\ risk_score >= RISK_THRESHOLD_CAPTCHA
                   /\ risk_score < RISK_THRESHOLD_BLOCK
                   /\ decision.action = "CAPTCHA"
                   /\ decision.level = "HIGH" )

C7_Witness == Scenario7 /\ decision.action # "NONE"

\* C8: decide_action maps every score to the one band it lies in, a score
\* equal to a threshold going to the more severe band.
C8_Bands ==
    op = "assess" =>
        /\ (risk_score >= RISK_THRESHOLD_BLOCK)
              <=> (decision.action = "BLOCK_IP" /\ decision.level = "CRITICAL")
        /\ (risk_score >= RISK_THRESHOLD_CAPTCHA /\ risk_score < RISK_THRESHOLD_BLOCK)
              <=> (decision.action = "CAPTCHA" /\ decision.level = "HIGH")
        /\ (risk_score >= 500 /\ risk_score < RISK_THRESHOLD_CAPTCHA)
              <=> (decision.action = "RATE_LIMIT" /\ decision.level = "MEDIUM")
        /\ (risk_score < 500)
              <=> (decision.action = "ALERT_ONLY" /\ decision.level = "LOW")

\* a score exactly at captcha_threshold is answered with CAPTCHA
C8_Witness ==
    /\ op = "assess"
    /\ risk_score = RISK_THRESHOLD_CAPTCHA
    /\ decision.action = "CAPTCHA"

\* severity scores of the reference formula, in thousandths
SeverityScore(sev) ==
    CASE sev = "CRITICAL" -> 1000
      [] sev = "HIGH" -> 800
      [] sev = "MEDIUM" -> 500
      [] sev = "LOW" -> 300

\* the largest severity score over the set of the severities present, 0 for
\* the empty set
OwaspComponent(sevs) ==
    IF sevs = {} THEN 0
    ELSE LET top == CHOOSE x \in sevs : \A y \in sevs : SeverityScore(y) <= SeverityScore(x)
         IN  SeverityScore(top)

\* the reference formula in millionths: a weight (thousandths) times a
\* component (thousandths) is left undivided, and the division of the nested
\* product by 1000 is exact because 400 * 600 and 400 * 400 are multiples of 1000
ReferenceScore(ml, owasp, beh) ==
    LET a == IF ml.present THEN ml.anomaly_score ELSE 0
        p == IF ml.present THEN ml.attack_probability ELSE 0
        r == IF beh.present THEN beh.blocked_ratio ELSE 0
        o == OwaspComponent({ owasp[i].severity : i \in 1..Len(owasp) })
    IN  Min(1000000,
            (400 * (600 * a + 400 * p)) \div 1000 + 300 * o + 200 * Min(2 * r, 1000))

\* C31: calculate_risk equals the reference formula
\* min(1, 0.40 * (0.6 * anomaly_score + 0.4 * attack_probability)
\*        + 0.30 * owasp_component + 0.20 * min(2 * blocked_ratio, 1))
\* exactly, where owasp_component depends on the set of the severities
\* present only, not on the order or the number of the detections
C31_ReferenceFormula ==
    op = "assess" =>
        /\ risk_score * 1000 = ReferenceScore(ml_data, owasp_data, behavioral)
        /\ calculate_risk(ml_data, owasp_data, behavioral) = risk_score

\* every component is present, the same HIGH detection is recorded twice, and the ratio is below 0.5
C31_Witness ==
    /\ op = "assess"
    /\ ml_data.present /\ ml_data.anomaly_score = 900 /\ ml_data.attack_probability = 800
    /\ Len(owasp_data) = 2
    /\ owasp_data[1] = owasp_data[2]
    /\ owasp_data[1].severity = "HIGH"
    /\ behavioral.present /\ behavioral.blocked_ratio = 250
    /\ risk_score = 684

\* every component of the assessed request lies in [0, 1]
ComponentsInUnitInterval ==
    /\ ml_data.present =>
          /\ 0 <= ml_data.anomaly_score /\ ml_data.anomaly_score <= 1000
          /\ 0 <= ml_data.attack_probability /\ ml_data.attack_probability <= 1000
    /\ behavioral.present =>
          0 <= behavioral.blocked_ratio /\ behavioral.blocked_ratio <= 1000

\* all three components of the assessed request are maximal
AllComponentsMaximal ==
    /\ ml_data.present
    /\ ml_data.anomaly_score = 1000
    /\ ml_data.attack_probability = 1000
    /\ \E i \in 1..Len(owasp_data) : owasp_data[i].severity = "CRITICAL"
    /\ behavioral.present
    /\ behavioral.blocked_ratio >= 500

\* C35: with the default weights and thresholds and components in [0, 1] the
\* score is at most 0.9, and the decision is BLOCK_IP / CRITICAL only when
\* anomaly_score = attack_probability = 1, a CRITICAL detection is recorded
\* and blocked_ratio >= 0.5
C35_BlockOnlyAtMaximum ==
    op = "assess" /\ ComponentsInUnitInterval =>
        /\ risk_score <= 900
        /\ decision.action = "BLOCK_IP" \/ decision.level = "CRITICAL" =>
              AllComponentsMaximal

\* the maximal components with a blocked ratio of exactly 0.5 score 0.9 and
\* are answered with BLOCK_IP
C35_Witness ==
    /\ op = "assess"
    /\ AllComponentsMaximal
    /\ behavioral.blocked_ratio = 500
    /\ threshold_block = RISK_THRESHOLD_BLOCK
    /\ risk_score = 900
    /\ decision.action = "BLOCK_IP"
    /\ decision.level = "CRITICAL"

\* C9: requires_validation is true in manual mode, score >= 0.8 in semi-auto
\* mode, score >= 0.95 in auto mode and false in strict mode, and the action
\* and level are the same in every mode.
C9_RequiresValidation ==
    op = "assess" =>
        /\ AUTOMATION_LEVEL = "manual" => decision.requires_validation
        /\ AUTOMATION_LEVEL = "semi-auto"
              => (decision.requires_validation <=> risk_score >= 800)
        /\ AUTOMATION_LEVEL = "auto"
              => (decision.requires_validation <=> risk_score >= 950)
        /\ AUTOMATION_LEVEL = "strict" => ~decision.requires_validation
        /\ \A m \in AutomationLevels :
              /\ decide_action(risk_score, m).action = decision.action
              /\ decide_action(risk_score, m).level = decision.level

\* semi-auto mode, score exactly 0.8: validation is required
C9_Witness ==
    /\ op = "assess"
    /\ AUTOMATION_LEVEL = "semi-auto"
    /\ risk_score = 800
    /\ decision.requires_validation

\* ------------------------------------------------------------------------
\* Properties of the Reputation Tracker (Spec)
\* ------------------------------------------------------------------------
\* the stored requests among the kinds S, counted with multiplicity
StoredIn(S) ==
    BagCardinality([r \in BagToSet(raw_requests) \cap S |-> raw_requests[r]])

StoredOf(ip) == StoredIn({ r \in Requests : r.client_ip = ip })

StoredBlockedOf(ip) == StoredIn({ r \in Requests : r.client_ip = ip /\ r.is_blocked })

StoredSuspiciousOf(ip) == StoredIn({ r \in Requests : r.client_ip = ip /\ r.is_suspicious })

InFlightFor(ip) == { r \in BagToSet(in_flight) : r.client_ip = ip }

\* this step stores request `new`, that is: it is observe(new)
Observes(new) == CopiesIn(new, raw_requests') = CopiesIn(new, raw_requests) + 1

\* C1: blocked_requests <= total_requests in every ReputationRecord, after
\* every observe and every admin block / unblock / whitelist write.
C1_BlockedLeTotal ==
    \A i \in 1..Len(ip_reputation) :
        ip_reputation[i].blocked_requests <= ip_reputation[i].total_requests

\* a blacklisted record all of whose observed requests were blocked
C1_Witness ==
    \E i \in 1..Len(ip_reputation) :
        /\ ip_reputation[i].is_blacklisted
        /\ ip_reputation[i].total_requests = MaxRequests
        /\ ip_reputation[i].blocked_requests = MaxRequests

\* C2: once all observes of an identity have completed there is exactly one
\* record for it, whose counters equal the numbers of stored, of blocked and
\* of suspicious requests of that identity.
C2_NoLostUpdate ==
    \A ip \in IPs :
        (InFlightFor(ip) = {} /\ StoredOf(ip) >= 1) =>
            /\ Cardinality(RowsOf(ip_reputation, ip)) = 1
            /\ \A i \in RowsOf(ip_reputation, ip) :
                  /\ ip_reputation[i].total_requests = StoredOf(ip)
                  /\ ip_reputation[i].blocked_requests = StoredBlockedOf(ip)
                  /\ ip_reputation[i].suspicious_requests = StoredSuspiciousOf(ip)

\* MaxRequests observes of one new identity have all completed, one of them
\* blocked and one suspicious
C2_Witness ==
    \E ip \in IPs :
        /\ in_flight = EmptyBag
        /\ StoredOf(ip) = MaxRequests
        /\ StoredBlockedOf(ip) >= 1
        /\ StoredSuspiciousOf(ip) >= 1
        /\ \E i \in RowsOf(ip_reputation, ip) :
              ip_reputation[i].total_requests = MaxRequests

\* the breakpoint function of spec 4.2: ratio > 0.5 low, > 0.2 medium, else high
BreakpointScore(blocked, total) ==
    IF 10 * blocked > 5 * total THEN 100
    ELSE IF 10 * blocked > 2 * total THEN 300
    ELSE 700

\* C3: after every observe, the first one included, reputation_score is the
\* breakpoint function of the updated ratio blocked_requests / total_requests.
C3_ScoreFollowsRatio ==
    [][ \A new \in Requests :
          Observes(new) =>
            \A i \in RowsOf(ip_reputation', new.client_ip) :
                ip_reputation'[i].reputation_score =
                    BreakpointScore(ip_reputation'[i].blocked_requests,
                                    ip_reputation'[i].total_requests) ]_vars

\* C4: an observe of a whitelisted identity leaves reputation_score at 1.0
\* and trust_level at TRUSTED.
C4_WhitelistPrecedence ==
    [][ \A new \in Requests :
          Observes(new) =>
            \A i \in RowsOf(ip_reputation, new.client_ip) :
                ( /\ ip_reputation[i].is_whitelisted
                  /\ ip_reputation[i].reputation_score = 1000
                  /\ ip_reputation[i].trust_level = "TRUSTED" )
                => ( /\ ip_reputation'[i].reputation_score = 1000
                     /\ ip_reputation'[i].trust_level = "TRUSTED" ) ]_vars

\* total_requests, blocked_requests and suspicious_requests of the identity
\* in the table, all 0 when it has no row
counters(table, ip) ==
    IF RowsOf(table, ip) = {} THEN <<0, 0, 0>>
    ELSE LET row == table[CHOOSE i \in RowsOf(table, ip) : TRUE]
         IN  <<row.total_requests, row.blocked_requests, row.suspicious_requests>>

\* C26: the counters of an identity change only in a step that observes a
\* request (the commit of a record in raw_requests); the admin operations
\* block, unblock and whitelist leave the counters of every identity as they were
C26_OnlyObserveMutatesCounters ==
    [][(\E ip \in IPs : counters(ip_reputation', ip) # counters(ip_reputation, ip))
          => \E new \in Requests : Observes(new)]_vars

\* an identity with requests observed was blocked and, after its last
\* observe, whitelisted: its counters are still there
C26_Witness ==
    \E i \in 1..Len(ip_reputation) :
        /\ ip_reputation[i].total_requests >= 1
        /\ ip_reputation[i].blocked_requests >= 1
        /\ ip_reputation[i].is_blacklisted
        /\ ip_reputation[i].is_whitelisted
        /\ ip_reputation[i].reputation_score = 1000

\* ------------------------------------------------------------------------
\* Properties of the Action Executor (SpecSoar)
\* ------------------------------------------------------------------------
\* this step handles a SOAR request whose executor returned executed=false
ReportsNotExecuted ==
    /\ ncalls' = ncalls + 1
    /\ last_call'.op \in {"execute", "manual"}
    /\ last_call'.status = 200
    /\ ~last_call'.executed

\* C40: an execution that reports executed=false has applied nothing: the
\* deny entries of the WAF and the keys of the SOAR's store are as before
\* and the action is stored as FAILED; a BLOCK_IP with auto-block disabled
\* and an action type outside the four known ones report executed=false and
\* make no call to the WAF
C40_NoEffectWhenNotExecuted ==
    [][/\ ReportsNotExecuted =>
             /\ waf_blocked_ip' = waf_blocked_ip
             /\ soar_redis' = soar_redis
             /\ last_call'.action_id = Len(soar_actions')
             /\ soar_actions'[Len(soar_actions')].action_status = "FAILED"
       /\ /\ ncalls' = ncalls + 1
          /\ last_call'.op \in {"execute", "manual"}
          /\ last_call'.status = 200
          /\ \/ last_call'.action_type = "BLOCK_IP" /\ ~ENABLE_AUTO_BLOCK
             \/ last_call'.action_type \notin ActionTypes
          => /\ ~last_call'.executed
             /\ last_call'.waf_calls = 0
      ]_vars

\* this step handles a SOAR request that runs BLOCK_IP against the WAF, and
\* the WAF answers with a failure status or cannot be reached
BlockRefused ==
    /\ ncalls' = ncalls + 1
    /\ last_call'.action_type = "BLOCK_IP"
    /\ last_call'.waf \in {"rejected", "unreachable"}

\* C10: when the enforcement point answers a BLOCK_IP with a failure or is
\* unreachable, the result is executed=false, the action is stored with status
\* FAILED, and no deny entry is created at the WAF or in the SOAR's store.
C10_FailedBlock ==
    [][ BlockRefused =>
          /\ last_call'.executed = FALSE
          /\ last_call'.status = 200
          /\ Len(soar_actions') = Len(soar_actions) + 1
          /\ last_call'.action_id = Len(soar_actions')
          /\ soar_actions'[Len(soar_actions')].action_status = "FAILED"
          /\ soar_actions'[Len(soar_actions')].action_type = "BLOCK_IP"
          /\ soar_actions'[Len(soar_actions')].target_ip = last_call'.target_ip
          /\ waf_blocked_ip' = waf_blocked_ip
          /\ soar_redis' = soar_redis ]_vars

\* /api/execute ran BLOCK_IP, the WAF refused it: the action is FAILED and the
\* target has no deny entry
C10_Witness ==
    /\ last_call.op = "execute"
    /\ last_call.action_type = "BLOCK_IP"
    /\ last_call.waf = "rejected"
    /\ ~last_call.executed
    /\ last_call.action_id = Len(soar_actions)
    /\ soar_actions[last_call.action_id].action_status = "FAILED"
    /\ ~waf_blocked_ip[last_call.target_ip].present
    /\ ~soar_redis[<<"blocked_ip", last_call.target_ip>>].present

\* this step handles an execute or manual-action request that stored an action
Executes ==
    /\ ncalls' = ncalls + 1
    /\ last_call'.op \in {"execute", "manual"}
    /\ last_call'.status = 200

\* C11: whenever a BLOCK_IP returns executed=true and is stored as EXECUTED,
\* the WAF holds a deny entry for the target at that moment.
C11_ExecutedBlockProtects ==
    [][ ( /\ Executes
          /\ last_call'.action_type = "BLOCK_IP"
          /\ last_call'.executed
          /\ soar_actions'[last_call'.action_id].action_status = "EXECUTED" )
        => waf_blocked_ip'[last_call'.target_ip].present ]_vars

\* this step handles an execute or manual-action request whose executor ran
\* (the assessment, if any, was found)
ExecutorRan ==
    /\ ncalls' = ncalls + 1
    /\ last_call'.op \in {"execute", "manual"}
    /\ last_call'.status # 404

\* the action type whose executor writes the key <kind>:<ip>
KindOf(action_type) ==
    CASE action_type = "BLOCK_IP" -> "blocked_ip"
      [] action_type = "CAPTCHA" -> "require_captcha"
      [] action_type = "RATE_LIMIT" -> "rate_limit_strict"
      [] OTHER -> "none"

\* some stored action of this type targets ip
Recorded(action_type, ip) ==
    \E i \in 1..Len(soar_actions) :
        /\ soar_actions[i].action_type = action_type
        /\ soar_actions[i].target_ip = ip

\* every deny entry and marker set by the executor has an action record
EffectsRecorded ==
    \A ip \in IPs :
        /\ waf_blocked_ip[ip].present => Recorded("BLOCK_IP", ip)
        /\ \A t \in {"BLOCK_IP", "CAPTCHA", "RATE_LIMIT"} :
              soar_redis[<<KindOf(t), ip>>].present => Recorded(t, ip)

\* C12: every request whose executor ran leaves exactly one action record,
\* EXECUTED iff executed=true, and no enforcement effect exists without an
\* action record, also when a store write fails after the enforcement call.
C12_OutcomesPersisted ==
    [][ /\ ExecutorRan =>
              /\ Len(soar_actions') = Len(soar_actions) + 1
              /\ (soar_actions'[Len(soar_actions')].action_status = "EXECUTED")
                    <=> last_call'.executed
        /\ EffectsRecorded' ]_vars

\* this step runs BLOCK_IP for an identity that already has a deny entry at
\* the WAF, the WAF stores the entry and answers 200, and the SOAR's own
\* key store accepts its write
Reblocks ==
    /\ ncalls' = ncalls + 1
    /\ last_call'.op \in {"execute", "manual"}
    /\ last_call'.action_type = "BLOCK_IP"
    /\ waf_blocked_ip[last_call'.target_ip].present
    /\ last_call'.waf = "ok_applied"
    /\ last_call'.redis_ok

\* C13: a BLOCK_IP for an identity that already has a deny entry does not
\* error, reports executed=true, and leaves one deny entry for the identity
\* whose expiry is the duration of this call; other identities keep theirs.
C13_ReblockIdempotent ==
    [][ Reblocks =>
          LET ip == last_call'.target_ip
              stored == soar_actions'[Len(soar_actions')]
          IN  /\ last_call'.status = 200
              /\ last_call'.executed
              /\ Len(soar_actions') = Len(soar_actions) + 1
              /\ stored.action_status = "EXECUTED"
              /\ waf_blocked_ip'[ip] =
                    DenyEntry("Auto-blocked by SOAR", stored.duration_minutes)
              /\ \A other \in IPs \ {ip} : waf_blocked_ip'[other] = waf_blocked_ip[other]
              /\ redis_client =>
                    soar_redis'[<<"blocked_ip", ip>>] =
                        DenyEntry("SOAR_AUTO_BLOCK", stored.duration_minutes) ]_vars

\* an identity blocked for 60 minutes was blocked again for 30 minutes, and
\* its one entry now expires after 30 minutes
C13_Witness ==
    /\ Len(soar_actions) = 2
    /\ \A i \in 1..2 : /\ soar_actions[i].action_type = "BLOCK_IP"
                       /\ soar_actions[i].action_status = "EXECUTED"
                       /\ soar_actions[i].target_ip = last_call.target_ip
    /\ soar_actions[1].duration_minutes = 60
    /\ soar_actions[2].duration_minutes = 30
    /\ last_call.waf = "ok_applied"
    /\ last_call.executed
    /\ waf_blocked_ip[last_call.target_ip].duration_minutes = 30

\* this step runs ALERT_ONLY through /api/execute or /api/manual-action
Alerts ==
    /\ ncalls' = ncalls + 1
    /\ last_call'.op \in {"execute", "manual"}
    /\ last_call'.action_type = "ALERT_ONLY"

\* execute_action("ALERT_ONLY", ...) applied in the current state, for every
\* identity, duration and outcome of the WAF and of the SOAR's key store
AlertOnlyIsPure ==
    \A ip \in IPs, d \in {15, 30, 60}, waf \in WafOutcomes \cup {"none"}, redis_ok \in BOOLEAN :
        LET result == execute_action("ALERT_ONLY", ip, d, waf, redis_ok, ExecutorState)
        IN  /\ result.executed /\ ~result.raised
            /\ result.blocked = waf_blocked_ip
            /\ result.redis = soar_redis

\* C14: ALERT_ONLY reports executed=true and changes no deny entry and no
\* challenge / throttle marker, whatever the WAF and the key store would answer.
C14_AlertOnlyFrame ==
    [][ /\ AlertOnlyIsPure
        /\ Alerts =>
              /\ last_call'.status = 200
              /\ last_call'.executed
              /\ soar_actions'[Len(soar_actions')].action_status = "EXECUTED"
              /\ waf_blocked_ip' = waf_blocked_ip
              /\ soar_redis' = soar_redis ]_vars

\* ALERT_ONLY ran for an identity that has a deny entry, which is still there
C14_Witness ==
    /\ last_call.action_type = "ALERT_ONLY"
    /\ last_call.executed
    /\ last_call.action_id = 2
    /\ soar_actions[2].action_status = "EXECUTED"
    /\ soar_actions[1].action_type = "BLOCK_IP"
    /\ soar_actions[1].target_ip = last_call.target_ip
    /\ waf_blocked_ip[last_call.target_ip].present

\* ------------------------------------------------------------------------
\* Properties of the Rollback Manager (SpecRollback)
\* ------------------------------------------------------------------------
\* this step is a rollback that answered {"success": true}
RollsBack ==
    /\ utcnow' = utcnow + 1
    /\ last_call'.op = "rollback"
    /\ last_call'.status = 200

\* the action rolled back by this step, as stored before the step
RolledBack == soar_actions[last_call'.action_id]

\* C15: after a successful rollback of an EXECUTED action its enforcement
\* effect is gone (deny entry for BLOCK_IP, marker for CAPTCHA / RATE_LIMIT,
\* nothing changed for ALERT_ONLY) and the record carries the rollback time
\* stamp and reason, for every outcome of the call of the WAF.
C15_RollbackReverses ==
    [][ (RollsBack /\ RolledBack.action_status = "EXECUTED") =>
          LET ip == RolledBack.target_ip
              t == RolledBack.action_type
              after == soar_actions'[last_call'.action_id]
          IN  /\ t = "BLOCK_IP" => ~waf_blocked_ip'[ip].present
              /\ t \in {"CAPTCHA", "RATE_LIMIT"} => ~soar_redis'[<<KindOf(t), ip>>].present
              /\ t = "ALERT_ONLY" => /\ waf_blocked_ip' = waf_blocked_ip
                                     /\ soar_redis' = soar_redis
              /\ after.rollback_at = utcnow'
              /\ after.rollback_reason = "Manual rollback" ]_vars

\* C16: a second rollback of an action already rolled back reports success
\* and changes nothing: the deny entries and markers (also one registered by
\* a later action for the same identity) and the recorded rollback time stamp
\* and reason are the same before and after.
C16_RollbackIdempotent ==
    [][ (RollsBack /\ RolledBack.rollback_at # 0) =>
          /\ waf_blocked_ip' = waf_blocked_ip
          /\ soar_redis' = soar_redis
          /\ soar_actions' = soar_actions ]_vars

\* C17: the rollback of a FAILED action reports success and does nothing: it
\* removes no deny entry or marker and leaves the record unchanged, with
\* rollback_at and rollback_reason empty.
C17_FailedNotRolledBack ==
    [][ (RollsBack /\ RolledBack.action_status = "FAILED") =>
          /\ waf_blocked_ip' = waf_blocked_ip
          /\ soar_redis' = soar_redis
          /\ soar_actions' = soar_actions
          /\ soar_actions'[last_call'.action_id].rollback_at = 0
          /\ soar_actions'[last_call'.action_id].rollback_reason = "" ]_vars

\* this step is a rollback request for an id that no stored action has
RollsBackUnknown ==
    /\ last_call'.op = "rollback"
    /\ last_call' # last_call
    /\ last_call'.action_id \notin 1..Len(soar_actions)

\* C18: the rollback of an action id that does not exist answers not found,
\* never success, and changes neither the enforcement state nor any record.
C18_RollbackNotFound ==
    [][ RollsBackUnknown =>
          /\ last_call'.status = 404
          /\ waf_blocked_ip' = waf_blocked_ip
          /\ soar_redis' = soar_redis
          /\ soar_actions' = soar_actions
          /\ utcnow' = utcnow ]_vars

\* an unknown id was answered with 404 while an executed block is in force
C18_Witness ==
    /\ last_call.op = "rollback"
    /\ last_call.status = 404
    /\ last_call.action_id = Len(soar_actions) + 1
    /\ \E i \in 1..Len(soar_actions) :
          /\ soar_actions[i].action_type = "BLOCK_IP"
          /\ soar_actions[i].action_status = "EXECUTED"
          /\ soar_actions[i].rollback_at = 0
          /\ waf_blocked_ip[soar_actions[i].target_ip].present

\* ------------------------------------------------------------------------
\* Properties of the Incident Tracker (SpecSoar, SpecIncident)
\* ------------------------------------------------------------------------
\* the incidents of a source that are OPEN or INVESTIGATING
OpenIncidents(ip) ==
    { i \in 1..Len(incidents) :
        /\ incidents[i].source_ip = ip
        /\ incidents[i].status \in {"OPEN", "INVESTIGATING"} }

\* C19: a source identity has at most one incident in status OPEN or
\* INVESTIGATING; an incident-worthy execution for a source that has one
\* updates it instead of creating another.
C19_OneOpenIncident ==
    \A ip \in IPs : Cardinality(OpenIncidents(ip)) <= 1

StatusRank(status) ==
    CASE status = "OPEN" -> 1
      [] status = "INVESTIGATING" -> 2
      [] status = "RESOLVED" -> 3
      [] OTHER -> 0

\* C20: the status of an incident only moves forward along OPEN,
\* INVESTIGATING, RESOLVED, and no status outside the enum is stored.
C20_StatusForward ==
    [][ \A i \in 1..Len(incidents) :
          /\ incidents'[i].status \in IncidentStatuses
          /\ StatusRank(incidents'[i].status) >= StatusRank(incidents[i].status) ]_vars

\* the last request ran the executor for a BLOCK_IP and the WAF did not
\* answer with status 200
EnforcementFailed ==
    /\ last_call.op \in {"execute", "manual"}
    /\ last_call.action_type = "BLOCK_IP"
    /\ ~Status200(last_call.waf)

\* C25: one execution calls the WAF at most twice; when the WAF refuses, is
\* unreachable or times out, the execution still ends with a result,
\* executed=false, and its action is recorded as FAILED
C25_BoundedEnforcement ==
    /\ last_call.op \in {"execute", "manual"} => last_call.waf_calls <= 2
    /\ EnforcementFailed =>
          /\ last_call.waf_calls >= 1
          /\ last_call.status = 200
          /\ last_call.executed = FALSE
          /\ soar_actions[last_call.action_id].action_status = "FAILED"

\* a BLOCK_IP whose call of the WAF timed out has ended with a result
C25_Witness ==
    /\ EnforcementFailed
    /\ last_call.waf \in {"timeout_applied", "timeout_noop"}
    /\ last_call.status = 200

\* this step is a POST /api/execute that was answered with status 200
ExecutesAssessment ==
    /\ ncalls' = ncalls + 1
    /\ last_call'.op = "execute"
    /\ last_call'.status = 200

\* C32: an execution for an assessment adds one incident when the
\* assessment's score is >= 0.8 and none below; the incident is CRITICAL for
\* a score >= 0.9 and HIGH otherwise, INVESTIGATING when the action was
\* executed and OPEN when it failed
C32_IncidentOnHighRisk ==
    [][ExecutesAssessment =>
          LET action == soar_actions'[last_call'.action_id]
              score == risk_assessments[action.risk_assessment_id].risk_score
          IN  IF score >= 800
                  THEN /\ Len(incidents') = Len(incidents) + 1
                       /\ SubSeq(incidents', 1, Len(incidents)) = incidents
                       /\ last_call'.incident_id = Len(incidents')
                       /\ incidents'[Len(incidents')].source_ip = action.target_ip
                       /\ incidents'[Len(incidents')].severity = "CRITICAL" <=> score >= 900
                       /\ incidents'[Len(incidents')].severity = "HIGH" <=> score < 900
                       /\ incidents'[Len(incidents')].status = "INVESTIGATING"
                             <=> last_call'.executed
                       /\ incidents'[Len(incidents')].status = "OPEN"
                             <=> ~last_call'.executed
                  ELSE /\ incidents' = incidents
                       /\ last_call'.incident_id = 0]_vars

\* an execution for the assessment that scores exactly 0.9 failed and left
\* a CRITICAL incident in status OPEN
C32_Witness ==
    /\ last_call.op = "execute"
    /\ last_call.status = 200
    /\ ~last_call.executed
    /\ last_call.incident_id = Len(incidents)
    /\ Len(incidents) >= 1
    /\ incidents[Len(incidents)].severity = "CRITICAL"
    /\ incidents[Len(incidents)].status = "OPEN"
    /\ risk_assessments[soar_actions[last_call.action_id].risk_assessment_id].risk_score = 900

\* ------------------------------------------------------------------------
\* Properties of the WAF pipeline (SpecWaf)
\* ------------------------------------------------------------------------
\* C21: the detection list of a request holds at most one detection per
\* category, also when several patterns of a category match or when a scanner
\* name is in the inspected content and in the User-Agent
C21_OnePerCategory ==
    \A i, j \in 1..Len(waf_detect.detections) :
        waf_detect.detections[i].type = waf_detect.detections[j].type => i = j

total_requests(ip) ==
    IF RowsOf(ip_reputation, ip) = {} THEN 0
    ELSE ip_reputation[CHOOSE i \in RowsOf(ip_reputation, ip) : TRUE].total_requests

\* C23: once the event store has committed everything handed to it, every
\* identity's total_requests is the number of non-health requests the WAF
\* handled for it
C23_ObservedOncePerRequest ==
    in_flight = EmptyBag =>
        \A ip \in IPs : total_requests(ip) = waf_handled[ip]

\* the step is the handling of the non-health request req by the middleware
Handles(req) ==
    /\ waf_handled' = [waf_handled EXCEPT ![req.client_ip] = @ + 1]
    /\ waf_response'.path = "/"
    /\ waf_response'.client_ip = req.client_ip
    /\ waf_response'.content = req.content
    /\ waf_response'.ua = req.ua

\* C27: the response of the WAF to a request and the deny entries it leaves
\* are those the pipeline gives from the same prior state whether the
\* hand-off to the event store succeeds, fails or times out
C27_HandoffIndependent ==
    [][\A req \in WafRequests :
          Handles(req) =>
              \A outcome \in HandoffOutcomes :
                  /\ waf_response'.status = waf_pipeline(req, outcome).status
                  /\ waf_blocked_ip' = waf_pipeline(req, outcome).blocked]_vars

\* a request was blocked on detection, a deny entry was registered for its
\* source, and the hand-off of its record did not reach the event store
C27_Witness ==
    /\ waf_response.status = 403
    /\ waf_detect.evaluated
    /\ waf_handled[waf_response.client_ip] = 1
    /\ waf_blocked_ip[waf_response.client_ip].present
    /\ waf_blocked_ip[waf_response.client_ip].duration_minutes = 120
    /\ in_flight = EmptyBag
    /\ raw_requests = EmptyBag

\* ------------------------------------------------------------------------
\* Properties of the risk engine service (SpecEngine)
\* ------------------------------------------------------------------------
\* the last assess call was for a stored request without a verdict, and the
\* database answered every call
NoVerdictAssessed ==
    /\ assess_last.request_id \in 1..Len(StoredRequests)
    /\ assess_last.store = "ok"
    /\ ~StoredRequests[assess_last.request_id].ml.present

\* C24: a request without a verdict is assessed without error, its ML
\* component is 0 and its score is
\* 0.30 * owasp_component + 0.20 * behavioral_component, which is also the
\* score of the assessment stored
C24_NoVerdictDegrades ==
    NoVerdictAssessed =>
        LET in == StoredRequests[assess_last.request_id]
        IN  /\ assess_last.status = 200
            /\ ml_score(in.ml) = 0
            /\ assess_last.risk_score =
                  Mul(owasp_score(in.owasp), 300) + Mul(behavioral_score(in.beh), 200)
            /\ risk_assessments[Len(risk_assessments)].risk_score = assess_last.risk_score

\* a request with a detection and a blocked ratio but no verdict was assessed
C24_Witness ==
    /\ NoVerdictAssessed
    /\ assess_last.status = 200
    /\ assess_last.risk_score > 0

\* both thresholds lie in [0,1], block is not below captcha, captcha is not
\* below 0.5
ValidThresholds ==
    /\ 0 <= threshold_block /\ threshold_block <= 1000
    /\ 0 <= threshold_captcha /\ threshold_captcha <= 1000
    /\ threshold_block >= threshold_captcha
    /\ threshold_captcha >= 500

\* C28: under thresholds that are out of range or misordered the risk engine
\* does not start, and no request is decided
C28_MisconfigurationFatal ==
    ~ValidThresholds =>
        /\ ~engine_started
        /\ risk_assessments = <<>>
        /\ assess_last = NoAssess

\* C29: when a database call of an assessment fails or times out, the
\* request is answered with the decision ALERT_ONLY, not with an error and
\* not with BLOCK_IP
C29_FailureDefaultsToAlertOnly ==
    assess_last.store \in {"failed", "timeout"} =>
        /\ assess_last.status = 200
        /\ assess_last.action = "ALERT_ONLY"

\* C30: table risk_assessments holds at most one assessment per request
C30_OneAssessmentPerRequest ==
    \A i, j \in 1..Len(risk_assessments) :
        risk_assessments[i].request_id = risk_assessments[j].request_id => i = j

\* the stored action i is a BLOCK_IP that is EXECUTED and has no rollback
ActiveBlock(table, i) ==
    /\ i \in 1..Len(table)
    /\ table[i].action_type = "BLOCK_IP"
    /\ table[i].action_status = "EXECUTED"
    /\ table[i].rollback_at = 0

\* C34: the protection of an active BLOCK_IP action is never removed by
\* something else: when an EXECUTED BLOCK_IP action without rollback has a
\* deny entry for its target and the step leaves the action active (it rolls
\* back another action, or none), the target still has a deny entry. No
\* time passes in the steps, so no duration has elapsed
C34_RollbackKeepsOthers ==
    [][\A i \in 1..Len(soar_actions) :
          /\ ActiveBlock(soar_actions, i)
          /\ ActiveBlock(soar_actions', i)
          /\ waf_blocked_ip[soar_actions[i].target_ip].present
          => waf_blocked_ip'[soar_actions[i].target_ip].present
      ]_vars

\* C36: in audit mode the middleware registers no deny entry and rejects no
\* request for its detections or its count: the deny entries are left as
\* they are, and a request from an identity without a deny entry is passed
\* through with whatever the application answers
C36_AuditNeverRejects ==
    [][\A req \in WafRequests :
          Handles(req) /\ WAF_MODE = "audit" =>
              /\ waf_blocked_ip' = waf_blocked_ip
              /\ waf_response'.status # 429
              /\ waf_response'.error # "Request Blocked"
              /\ ~waf_blocked_ip[req.client_ip].present =>
                    waf_response'.status = 200 /\ waf_response'.error = ""
      ]_vars

\* in audit mode a request with a CRITICAL detection, the second of its
\* identity within the minute under a limit of 1, was passed through
C36_Witness ==
    /\ waf_detect.evaluated
    /\ waf_detect.mode = "audit"
    /\ \E i \in 1..Len(waf_detect.detections) : waf_detect.detections[i].severity = "CRITICAL"
    /\ waf_response.content = waf_detect.content
    /\ waf_response.ua = waf_detect.ua
    /\ waf_response.status = 200
    /\ waf_redis_client
    /\ waf_ratelimit[waf_response.client_ip] = 2
    /\ RATE_LIMIT_PER_MINUTE = 1
    /\ ~waf_blocked_ip[waf_response.client_ip].present

\* the step answers 403 and leaves a 120-minute deny entry for ip
RejectsAndRegisters(ip) ==
    /\ waf_response'.status = 403
    /\ waf_blocked_ip'[ip].present
    /\ waf_blocked_ip'[ip].duration_minutes = 120

\* C37: a request from an identity that has no deny entry and is within its
\* rate limit is rejected with 403 and gets a 120-minute deny entry exactly
\* when it has a CRITICAL detection (block mode) or any detection (strict
\* mode); without detection it is passed through in every mode
C37_RejectionByMode ==
    [][\A req \in WafRequests :
          LET ip == req.client_ip
              detections == detect_owasp(req.content, req.ua)
              critical ==
                  \E i \in 1..Len(detections) : detections[i].severity = "CRITICAL"
          IN  /\ Handles(req)
              /\ ~waf_blocked_ip[ip].present
              /\ check_rate_limit(ip).ok
              => /\ WAF_MODE = "block" => (RejectsAndRegisters(ip) <=> critical)
                 /\ WAF_MODE = "strict" => (RejectsAndRegisters(ip) <=> detections # <<>>)
                 /\ detections = <<>> => waf_response'.status = 200
      ]_vars

\* ------------------------------------------------------------------------
\* Properties of the WAF's deny entries and rate limit over time
\* ------------------------------------------------------------------------
\* the response of the step is the rejection of a blocked identity
RejectedAsBlocked ==
    waf_response'.status = 403 /\ waf_response'.error = "Access Denied"

\* the step deletes the deny entry of ip as POST /admin/unblock-ip does
Unblocks(ip) == waf_blocked_ip' = [waf_blocked_ip EXCEPT ![ip] = NoEntry]

\* the time after which the next key of the WAF's store runs out
NextExpiryIn == CHOOSE t \in LiveTtls : \A u \in LiveTtls : t <= u

CountWith(ip) == IF waf_redis_client THEN waf_ratelimit[ip] + 1 ELSE 0

====
